---- MODULE Spec2Model ----
(***************************************************************************)
(* A model of the Intermediate-Compiler front end: Lexer, recursive-       *)
(* descent Parser with panic-mode recovery, SemanticAnalyzer and           *)
(* TACGenerator, driven by runAnalysis.  Source text is a TLA+ string,     *)
(* tokens and AST nodes are records carrying the field names of the        *)
(* JavaScript objects, and the parser is a machine over an explicit call   *)
(* stack, one step per stretch of straight-line code between calls.        *)
(***************************************************************************)
EXTENDS Integers, Sequences, FiniteSets, TLC

VARIABLES
    input,          \* codeInput.value, with what is known of it by construction
    build,          \* which copy of parser/tac sources is linked in
    pc,             \* position of runAnalysis: lex, parse, analyze, generate, display, done
    shown,          \* what the panels show at the end: none, results, errors, critical
    thrown,         \* message of the exception that left the try block, or ""
    code,           \* Lexer.code (after comment stripping)
    remainingCode,  \* Lexer.tokenize: remainingCode
    line,           \* Lexer.tokenize: line
    col,            \* Lexer.tokenize: col
    tokens,         \* the token array
    pos,            \* Parser.pos
    errors,         \* Parser.errors
    stack,          \* the parser's call stack, innermost frame last
    ret,            \* value returned by the call that just finished
    ast,            \* result of parse(): the ProgramNode, or NULL before
    expectLog,      \* the expect() calls made by the latest parser step
    steps,          \* how many steps the parser has taken
    scopes,         \* SemanticAnalyzer.scopes
    currentScope,   \* SemanticAnalyzer.currentScope (index into scopes, 0 = null)
    semErrors,      \* SemanticAnalyzer.errors
    agenda,         \* pending work of the analyzer's depth-first walk
    analyzed,       \* TRUE once SemanticAnalyzer.analyze has been invoked
    intermediateCode, \* TAC lines handed to displayResults
    generated,      \* TRUE once TACGenerator.generate has been invoked
    generator       \* the TACGenerator object, NULL before its construction

vars == <<input, build, pc, shown, thrown, code, remainingCode, line, col, tokens, pos,
          errors, stack, ret, ast, expectLog, steps, scopes, currentScope, semErrors,
          agenda, analyzed, intermediateCode, generated, generator>>

lexVars == <<code, remainingCode, line, col, tokens>>
parseVars == <<pos, errors, stack, ret, ast, expectLog, steps>>
semVars == <<scopes, currentScope, semErrors, agenda, analyzed>>
tacVars == <<intermediateCode, generated, generator>>

\* JavaScript null
NULL == [type |-> "null"]

Min(a, b) == IF a < b THEN a ELSE b

(***************************************************************************)
(* Characters and the regular expressions of the token rules               *)
(***************************************************************************)
Digits == {"0", "1", "2", "3", "4", "5", "6", "7", "8", "9"}

Letters ==
    {"a", "b", "c", "d", "e", "f", "g", "h", "i", "j", "k", "l", "m", "n", "o",
     "p", "q", "r", "s", "t", "u", "v", "w", "x", "y", "z",
     "A", "B", "C", "D", "E", "F", "G", "H", "I", "J", "K", "L", "M", "N", "O",
     "P", "Q", "R", "S", "T", "U", "V", "W", "X", "Y", "Z", "_"}

\* \w
WordChars == Letters \cup Digits

\* \s (the members a TLA+ string can hold)
Whitespace == {" ", "\t", "\n", "\r", "\f"}

\* the characters the regular expression dot does not match
LineTerminators == {"\n", "\r"}

CharAt(s, i) == IF i >= 1 /\ i <= Len(s) THEN SubSeq(s, i, i) ELSE ""

\* String.prototype.substring(n)
Substring(s, n) == SubSeq(s, n + 1, Len(s))

StartsWith(s, p) == Len(s) >= Len(p) /\ SubSeq(s, 1, Len(p)) = p

\* length of the longest run of characters of class cls starting at index i
RECURSIVE RunLen(_, _, _)
RunLen(s, i, cls) ==
    IF i <= Len(s) /\ CharAt(s, i) \in cls THEN 1 + RunLen(s, i + 1, cls) ELSE 0

\* 1-based index of the first occurrence of character c at or after i, 0 if none
RECURSIVE IndexOf(_, _, _)
IndexOf(s, c, i) ==
    IF i > Len(s) THEN 0
    ELSE IF CharAt(s, i) = c THEN i
    ELSE IndexOf(s, c, i + 1)

\* 1-based index of the last occurrence of c in s, 0 if none
RECURSIVE LastIndexOf(_, _, _)
LastIndexOf(s, c, i) ==
    IF i < 1 THEN 0
    ELSE IF CharAt(s, i) = c THEN i
    ELSE LastIndexOf(s, c, i - 1)

RECURSIVE CountChar(_, _, _)
CountChar(s, c, i) ==
    IF i > Len(s) THEN 0
    ELSE (IF CharAt(s, i) = c THEN 1 ELSE 0) + CountChar(s, c, i + 1)

Keywords == <<"int", "void", "if", "else", "while", "for", "return", "printf">>

TwoCharOperators == {"==", "!=", "<=", ">=", "&&", "||"}
OneCharOperators == {"+", "-", "*", "/", "=", "<", ">", "!"}
Separators == {"(", ")", "{", "}", ";", ","}

\* /^\d+\.\d+/
MatchFloat(s) ==
    LET d == RunLen(s, 1, Digits)
        f == RunLen(s, d + 2, Digits)
    IN  IF d > 0 /\ CharAt(s, d + 1) = "." /\ f > 0 THEN d + 1 + f ELSE 0

\* /^\d+/
MatchInt(s) == RunLen(s, 1, Digits)

\* /^"[^"]*"/
MatchString(s) ==
    IF CharAt(s, 1) = "\"" THEN IndexOf(s, "\"", 2) ELSE 0

\* /^\b(int|void|if|else|while|for|return|printf)\b/
MatchKeyword(s) ==
    LET hits == {k \in 1..Len(Keywords) :
                    /\ StartsWith(s, Keywords[k])
                    /\ CharAt(s, Len(Keywords[k]) + 1) \notin WordChars}
    IN  IF hits = {} THEN 0
        ELSE Len(Keywords[CHOOSE k \in hits : \A j \in hits : k <= j])

\* /^[a-zA-Z_][a-zA-Z0-9_]*/
MatchIdentifier(s) ==
    IF CharAt(s, 1) \in Letters THEN 1 + RunLen(s, 2, WordChars) ELSE 0

\* the operator rule with ++ and -- among the two-character operators
MatchOperator_withIncrement(s) ==
    IF Len(s) >= 2 /\ SubSeq(s, 1, 2) \in TwoCharOperators \cup {"++", "--"} THEN 2
    ELSE IF CharAt(s, 1) \in OneCharOperators THEN 1
    ELSE 0

\* /^(==|!=|<=|>=|&&|\|\||[+\-*\/=<>!])/
MatchOperator(s) ==
    IF Len(s) >= 2 /\ SubSeq(s, 1, 2) \in TwoCharOperators THEN 2
    ELSE IF CharAt(s, 1) \in OneCharOperators THEN 1
    ELSE 0

\* /^[\(\)\{\};,]/
MatchSeparator(s) == IF CharAt(s, 1) \in Separators THEN 1 ELSE 0

\* /^./
MatchMismatch(s) ==
    IF Len(s) >= 1 /\ CharAt(s, 1) \notin LineTerminators THEN 1 ELSE 0

\* tokenSpecs with the integer rule tried before the float rule
tokenSpecs_intFirst ==
    <<"INT_LIT", "FLOAT_LIT", "STRING_LIT", "KEYWORD", "IDENTIFIER", "OPERATOR",
      "SEPARATOR", "MISMATCH">>

\* the ordered rule list
tokenSpecs ==
    <<"FLOAT_LIT", "INT_LIT", "STRING_LIT", "KEYWORD", "IDENTIFIER", "OPERATOR",
      "SEPARATOR", "MISMATCH">>

MatchSpec(type, s) ==
    CASE type = "FLOAT_LIT" -> MatchFloat(s)
      [] type = "INT_LIT" -> MatchInt(s)
      [] type = "STRING_LIT" -> MatchString(s)
      [] type = "KEYWORD" -> MatchKeyword(s)
      [] type = "IDENTIFIER" -> MatchIdentifier(s)
      [] type = "OPERATOR" -> MatchOperator(s)
      [] type = "SEPARATOR" -> MatchSeparator(s)
      [] type = "MISMATCH" -> MatchMismatch(s)

\* index of the first rule that matches s, 0 if none does
FirstMatch(s) ==
    LET hits == {k \in 1..Len(tokenSpecs) : MatchSpec(tokenSpecs[k], s) > 0}
    IN  IF hits = {} THEN 0 ELSE CHOOSE k \in hits : \A j \in hits : k <= j

\* MatchWhitespace with the class [ \t] in place of \s
MatchWhitespace_blanksOnly(s) == RunLen(s, 1, {" ", "\t"})

\* /^\s+/
MatchWhitespace(s) == RunLen(s, 1, Whitespace)

\* LexIteration with the column running on over line breaks
LexIteration_noColumnReset(st) ==
    LET w == MatchWhitespace(st.remainingCode)
        ws == SubSeq(st.remainingCode, 1, w)
        newlines == CountChar(ws, "\n", 1)
        line1 == IF newlines > 0 THEN st.line + newlines ELSE st.line
        col1 == st.col + w
        rest == Substring(st.remainingCode, w)
        k == FirstMatch(rest)
        n == MatchSpec(tokenSpecs[k], rest)
        value == SubSeq(rest, 1, n)
    IN  IF rest = ""
        THEN [st EXCEPT !.remainingCode = rest, !.line = line1, !.col = col1]
        ELSE IF k = 0
        THEN [st EXCEPT !.remainingCode = rest, !.line = line1, !.col = col1,
                        !.thrown = "Lexer error: " \o SubSeq(rest, 1, Min(10, Len(rest)))]
        ELSE [st EXCEPT !.remainingCode = Substring(rest, n),
                        !.line = line1,
                        !.col = col1 + n,
                        !.tokens = Append(st.tokens,
                            [type |-> tokenSpecs[k], value |-> value,
                             line |-> line1, col |-> col1])]

\* One iteration of the while loop of tokenize, as a function of the loop state.
LexIteration(st) ==
    LET w == MatchWhitespace(st.remainingCode)
        ws == SubSeq(st.remainingCode, 1, w)
        newlines == CountChar(ws, "\n", 1)
        line1 == IF newlines > 0 THEN st.line + newlines ELSE st.line
        col1 == IF w = 0 THEN st.col
                ELSE IF newlines > 0 THEN w - (LastIndexOf(ws, "\n", w) - 1)
                ELSE st.col + w
        rest == Substring(st.remainingCode, w)
        k == FirstMatch(rest)
        n == MatchSpec(tokenSpecs[k], rest)
        value == SubSeq(rest, 1, n)
    IN  IF rest = ""
        THEN [st EXCEPT !.remainingCode = rest, !.line = line1, !.col = col1]
        ELSE IF k = 0
        THEN [st EXCEPT !.remainingCode = rest, !.line = line1, !.col = col1,
                        !.thrown = "Lexer error: " \o SubSeq(rest, 1, Min(10, Len(rest)))]
        ELSE [st EXCEPT !.remainingCode = Substring(rest, n),
                        !.line = line1,
                        !.col = col1 + n,
                        !.tokens = Append(st.tokens,
                            [type |-> tokenSpecs[k], value |-> value,
                             line |-> line1, col |-> col1])]

\* at most n iterations of the while loop of tokenize, stopping when the text
\* is used up or an error is thrown (the run is halved to keep the evaluation
\* shallow; the iterations happen in the order of the loop)
RECURSIVE LexIterations(_, _)
LexIterations(st, n) ==
    IF st.remainingCode = "" \/ st.thrown # "" \/ n = 0 THEN st
    ELSE IF n = 1 THEN LexIteration(st)
    ELSE LET half == LexIterations(st, n \div 2)
         IN  IF half.remainingCode = "" \/ half.thrown # "" THEN half
             ELSE LexIterations(half, n - (n \div 2))

\* the loop of tokenize, run until the text is used up or an error is thrown:
\* every iteration that does not throw removes at least one character
tokenize(st) == LexIterations(st, Len(st.remainingCode))

(***************************************************************************)
(* AST nodes (astNodes.js); type holds node.constructor.name               *)
(***************************************************************************)
ProgramNode(c) == [type |-> "ProgramNode", children |-> c]

FunctionDefinitionNode(rt, n, p, b) ==
    [type |-> "FunctionDefinitionNode", returnType |-> rt, name |-> n,
     params |-> p, body |-> b]

ParamNode(pt, pn) == [type |-> "ParamNode", paramType |-> pt, paramName |-> pn]

BlockNode(s) == [type |-> "BlockNode", statements |-> s]

VariableDeclarationNode(vt, vn, v) ==
    [type |-> "VariableDeclarationNode", varType |-> vt, varName |-> vn, value |-> v]

AssignmentNode(l, r) == [type |-> "AssignmentNode", left |-> l, right |-> r]

BinaryOpNode(l, o, r) == [type |-> "BinaryOpNode", left |-> l, op |-> o, right |-> r]

NumberNode(t) == [type |-> "NumberNode", token |-> t, value |-> t.value]

\* the constructor reads t.value: the caller must not pass null
IdentifierNode(t) == [type |-> "IdentifierNode", token |-> t, name |-> t.value]

StringLiteralNode(t) == [type |-> "StringLiteralNode", token |-> t, value |-> t.value]

FunctionCallNode(n, a) == [type |-> "FunctionCallNode", name |-> n, args |-> a]

IfStatementNode(c, ib, eb) ==
    [type |-> "IfStatementNode", condition |-> c, ifBody |-> ib, elseBody |-> eb]

ForLoopNode(init, cond, inc, body) ==
    [type |-> "ForLoopNode", init |-> init, condition |-> cond, increment |-> inc,
     body |-> body]

ReturnStatementNode(v) == [type |-> "ReturnStatementNode", value |-> v]

UnaryOpNode(op, arg) == [type |-> "UnaryOpNode", op |-> op, arg |-> arg]

\* what reading .value of null raises
NullValueError == "Cannot read properties of null (reading 'value')"

(***************************************************************************)
(* Parser primitives, over the parser object                               *)
(*   p = [tokens, pos, errors, log, build]                                 *)
(* An absent optional argument (null or undefined) is written "" for a     *)
(* string and NULL for a token; no token has an empty value.               *)
(***************************************************************************)
currentToken(p) == IF p.pos < Len(p.tokens) THEN p.tokens[p.pos + 1] ELSE NULL

\* this.currentToken()?.value, "" standing for undefined
currentValue(p) == IF currentToken(p) = NULL THEN "" ELSE currentToken(p).value

\* this.currentToken()?.type
currentType(p) == IF currentToken(p) = NULL THEN "" ELSE currentToken(p).type

\* this.tokens[this.pos + 1]
nextToken(p) == IF p.pos + 1 < Len(p.tokens) THEN p.tokens[p.pos + 2] ELSE NULL

advance(p) == [p EXCEPT !.pos = @ + 1]

SyntaxErrorMessage(m, tok) ==
    "Syntax Error: " \o m \o " " \o
        (IF tok # NULL THEN "at line " \o ToString(tok.line) ELSE "at EOF")

\* error without the advance past the offending token
error_noAdvance(p, m, t) ==
    LET tok == IF t # NULL THEN t ELSE currentToken(p)
    IN  [p EXCEPT !.errors = Append(@, [message |-> SyntaxErrorMessage(m, tok)])]

\* error advancing at the end of the tokens too
error_alwaysAdvance(p, m, t) ==
    LET tok == IF t # NULL THEN t ELSE currentToken(p)
    IN  advance([p EXCEPT !.errors = Append(@, [message |-> SyntaxErrorMessage(m, tok)])])

error(p, m, t) ==
    LET tok == IF t # NULL THEN t ELSE currentToken(p)
        q == [p EXCEPT !.errors = Append(@, [message |-> SyntaxErrorMessage(m, tok)])]
    IN  IF tok # NULL THEN advance(q) ELSE q

\* expect returns the parser object after the call and the token (or NULL)
expectStep(p, ty, v) ==
    LET t == currentToken(p)
    IN  IF t # NULL /\ t.type = ty /\ (v = "" \/ t.value = v)
        THEN [p |-> advance(p), tok |-> t]
        ELSE [p |-> error(p, "Expected " \o (IF v # "" THEN v ELSE ty), t),
              tok |-> NULL]

\* expect, with the call recorded in the log of the current step
expect(p, ty, v) ==
    LET r == expectStep(p, ty, v)
    IN  [p |-> [r.p EXCEPT !.log = Append(@,
                    [ty |-> ty, v |-> v, current |-> currentToken(p),
                     pos0 |-> p.pos, pos1 |-> r.p.pos,
                     errors0 |-> p.errors, errors1 |-> r.p.errors,
                     result |-> r.tok])],
         tok |-> r.tok]

(***************************************************************************)
(* The parser as a machine over its call stack.  A step runs the code of   *)
(* the innermost frame f from its program point f.pc up to the next call   *)
(* or return; r is the value the call that just finished returned.  The    *)
(* outcome says how control leaves the step.                               *)
(***************************************************************************)
Goto(p, f) == [k |-> "goto", p |-> p, f |-> f]
Call(p, f, callee) == [k |-> "call", p |-> p, f |-> f, callee |-> callee]
TailCall(p, callee) == [k |-> "tail", p |-> p, callee |-> callee]
Return(p, v) == [k |-> "return", p |-> p, v |-> v]
Throw(p, msg) == [k |-> "throw", p |-> p, msg |-> msg]

Frame(fn) == [fn |-> fn, pc |-> "start"]

parseFrame == [fn |-> "parse", pc |-> "loop", functions |-> <<>>]

parseFunctionDefinitionFrame ==
    [fn |-> "parseFunctionDefinition", pc |-> "start", type |-> NULL, name |-> NULL,
     params |-> <<>>]

parseBlockFrame == [fn |-> "parseBlock", pc |-> "start", stmts |-> <<>>]

recoverFrame == [fn |-> "recover", pc |-> "loop"]

parseVariableDeclarationFrame ==
    [fn |-> "parseVariableDeclaration", pc |-> "start", t |-> NULL, n |-> NULL]

parseAssignmentFrame(noSemicolon) ==
    [fn |-> "parseAssignment", pc |-> "start", noSemicolon |-> noSemicolon, l |-> NULL]

parseFunctionCallStatementFrame ==
    [fn |-> "parseFunctionCallStatement", pc |-> "start", n |-> NULL, a |-> <<>>]

parseIfStatementFrame ==
    [fn |-> "parseIfStatement", pc |-> "start", c |-> NULL, ib |-> NULL]

parseForLoopFrame ==
    [fn |-> "parseForLoop", pc |-> "start", init |-> NULL, cond |-> NULL, inc |-> NULL]

parseFunctionCallExpressionFrame ==
    [fn |-> "parseFunctionCallExpression", pc |-> "start", nameToken |-> NULL,
     args |-> <<>>]

\* parse without the break: a failed function definition is skipped
parse_noBreak(p, f, r) ==
    CASE f.pc = "loop" ->
            IF currentToken(p) # NULL
            THEN Call(p, [f EXCEPT !.pc = "func"], parseFunctionDefinitionFrame)
            ELSE Return(p, ProgramNode(f.functions))
      [] f.pc = "func" ->
            IF r # NULL
            THEN Goto(p, [f EXCEPT !.pc = "loop", !.functions = Append(@, r)])
            ELSE Goto(p, [f EXCEPT !.pc = "loop"])

\* parse()
parse(p, f, r) ==
    CASE f.pc = "loop" ->
            IF currentToken(p) # NULL
            THEN Call(p, [f EXCEPT !.pc = "func"], parseFunctionDefinitionFrame)
            ELSE Return(p, ProgramNode(f.functions))
      [] f.pc = "func" ->
            IF r # NULL
            THEN Goto(p, [f EXCEPT !.pc = "loop", !.functions = Append(@, r)])
            ELSE IF Len(p.errors) > 0
            THEN Return(p, ProgramNode(f.functions))
            ELSE Goto(p, [f EXCEPT !.pc = "loop"])

\* parseFunctionDefinition()
parseFunctionDefinition(p, f, r) ==
    CASE f.pc = "start" ->
            LET type == expect(p, "KEYWORD", "")
                name == expect(type.p, "IDENTIFIER", "")
                open == expect(name.p, "SEPARATOR", "(")
                g == [f EXCEPT !.type = type.tok, !.name = name.tok]
            IN  IF type.tok = NULL \/ name.tok = NULL THEN Return(name.p, NULL)
                ELSE IF currentValue(open.p) # ")"
                THEN Goto(open.p, [g EXCEPT !.pc = "param"])
                ELSE Goto(open.p, [g EXCEPT !.pc = "close"])
      [] f.pc = "param" ->
            LET paramType == expect(p, "KEYWORD", "")
                paramName == expect(paramType.p, "IDENTIFIER", "")
                g == IF paramType.tok # NULL /\ paramName.tok # NULL
                     THEN [f EXCEPT !.params = Append(@,
                              ParamNode(paramType.tok.value, IdentifierNode(paramName.tok)))]
                     ELSE f
            IN  IF currentValue(paramName.p) # ","
                THEN Goto(paramName.p, [g EXCEPT !.pc = "close"])
                ELSE Goto(advance(paramName.p), g)
      [] f.pc = "close" ->
            Call(expect(p, "SEPARATOR", ")").p, [f EXCEPT !.pc = "body"], parseBlockFrame)
      [] f.pc = "body" ->
            Return(p, FunctionDefinitionNode(f.type.value, IdentifierNode(f.name),
                                             f.params, r))

\* parseBlock()
parseBlock(p, f, r) ==
    CASE f.pc = "start" ->
            Goto(expect(p, "SEPARATOR", "{").p, [f EXCEPT !.pc = "loop"])
      [] f.pc = "loop" ->
            IF currentToken(p) # NULL /\ currentToken(p).value # "}"
            THEN Call(p, [f EXCEPT !.pc = "stmt"], Frame("parseStatement"))
            ELSE Return(expect(p, "SEPARATOR", "}").p, BlockNode(f.stmts))
      [] f.pc = "stmt" ->
            IF r # NULL
            THEN Goto(p, [f EXCEPT !.pc = "loop", !.stmts = Append(@, r)])
            ELSE IF Len(p.errors) > 0
            THEN Call(p, [f EXCEPT !.pc = "loop"], recoverFrame)
            ELSE Goto(p, [f EXCEPT !.pc = "loop"])

\* recover whose loop forgets to advance
recover_noAdvance(p, f, r) ==
    IF currentToken(p) # NULL /\ currentToken(p).value # ";"
                              /\ currentToken(p).value # "}"
    THEN Goto(p, f)
    ELSE IF currentValue(p) = ";" THEN Return(advance(p), NULL)
    ELSE Return(p, NULL)

\* recover that stops at ; only and so skips over a closing brace
recover_overBrace(p, f, r) ==
    IF currentToken(p) # NULL /\ currentToken(p).value # ";"
    THEN Goto(advance(p), f)
    ELSE IF currentValue(p) = ";" THEN Return(advance(p), NULL)
    ELSE Return(p, NULL)

\* recover(): one step per iteration of its loop
recover(p, f, r) ==
    IF currentToken(p) # NULL /\ currentToken(p).value # ";"
                              /\ currentToken(p).value # "}"
    THEN Goto(advance(p), f)
    ELSE IF currentValue(p) = ";" THEN Return(advance(p), NULL)
    ELSE Return(p, NULL)

\* parseStatement(); the branch for i++ and i-- is absent from main.js
parseStatement(p, f, r) ==
    LET t == currentToken(p)
        next == nextToken(p)
        nextValue == IF next = NULL THEN "" ELSE next.value
    IN  IF t = NULL THEN Return(p, NULL)
        ELSE IF t.type = "KEYWORD" /\ t.value = "int"
        THEN TailCall(p, parseVariableDeclarationFrame)
        ELSE IF t.type = "KEYWORD" /\ t.value = "if"
        THEN TailCall(p, parseIfStatementFrame)
        ELSE IF t.type = "KEYWORD" /\ t.value = "for"
        THEN TailCall(p, parseForLoopFrame)
        ELSE IF t.type = "KEYWORD" /\ t.value = "return"
        THEN TailCall(p, Frame("parseReturnStatement"))
        ELSE IF (t.type = "IDENTIFIER" \/ t.value = "printf") /\ nextValue = "("
        THEN TailCall(p, parseFunctionCallStatementFrame)
        ELSE IF (t.type = "IDENTIFIER" \/ t.value = "printf") /\ nextValue = "="
        THEN TailCall(p, parseAssignmentFrame(FALSE))
        ELSE IF /\ p.build # "main.js"
                /\ (t.type = "IDENTIFIER" \/ t.value = "printf")
                /\ next # NULL /\ next.type = "OPERATOR"
                /\ (next.value = "++" \/ next.value = "--")
        THEN LET semi == expect(advance(advance(p)), "SEPARATOR", ";")
             IN  Return(semi.p, UnaryOpNode(next.value, IdentifierNode(t)))
        ELSE Return(error(p, "Invalid statement", NULL), NULL)

\* parseVariableDeclaration()
parseVariableDeclaration(p, f, r) ==
    CASE f.pc = "start" ->
            LET t == expect(p, "KEYWORD", "")
                n == expect(t.p, "IDENTIFIER", "")
            IN  IF t.tok = NULL \/ n.tok = NULL THEN Return(n.p, NULL)
                ELSE IF currentValue(n.p) = "="
                THEN Call(advance(n.p), [f EXCEPT !.pc = "value", !.t = t.tok, !.n = n.tok],
                          Frame("parseExpression"))
                ELSE Return(expect(n.p, "SEPARATOR", ";").p,
                            VariableDeclarationNode(t.tok.value, IdentifierNode(n.tok), NULL))
      [] f.pc = "value" ->
            Return(expect(p, "SEPARATOR", ";").p,
                   VariableDeclarationNode(f.t.value, IdentifierNode(f.n), r))

\* parseAssignment(noSemicolon): new IdentifierNode(null) raises a TypeError
parseAssignment(p, f, r) ==
    CASE f.pc = "start" ->
            LET l == expect(p, "IDENTIFIER", "")
            IN  IF l.tok = NULL THEN Throw(l.p, NullValueError)
                ELSE Call(expect(l.p, "OPERATOR", "=").p,
                          [f EXCEPT !.pc = "right", !.l = IdentifierNode(l.tok)],
                          Frame("parseExpression"))
      [] f.pc = "right" ->
            Return(IF f.noSemicolon THEN p ELSE expect(p, "SEPARATOR", ";").p,
                   AssignmentNode(f.l, r))

\* parseFunctionCallStatement()
parseFunctionCallStatement(p, f, r) ==
    CASE f.pc = "start" ->
            LET n == currentToken(p)
                open == expect(advance(p), "SEPARATOR", "(")
            IN  IF n.type # "IDENTIFIER" /\ n.type # "KEYWORD"
                THEN Return(error(p, "Expected function name", NULL), NULL)
                ELSE IF currentValue(open.p) # ")"
                THEN Call(open.p, [f EXCEPT !.pc = "arg", !.n = n], Frame("parseExpression"))
                ELSE Goto(open.p, [f EXCEPT !.pc = "close", !.n = n])
      [] f.pc = "arg" ->
            IF currentValue(p) = ","
            THEN Call(advance(p), [f EXCEPT !.a = Append(@, r)], Frame("parseExpression"))
            ELSE Goto(p, [f EXCEPT !.pc = "close", !.a = Append(@, r)])
      [] f.pc = "close" ->
            LET close == expect(p, "SEPARATOR", ")")
                semi == expect(close.p, "SEPARATOR", ";")
            IN  Return(semi.p, FunctionCallNode(IdentifierNode(f.n), f.a))

\* parseIfStatement()
parseIfStatement(p, f, r) ==
    CASE f.pc = "start" ->
            LET kw == expect(p, "KEYWORD", "if")
                open == expect(kw.p, "SEPARATOR", "(")
            IN  Call(open.p, [f EXCEPT !.pc = "cond"], Frame("parseExpression"))
      [] f.pc = "cond" ->
            Call(expect(p, "SEPARATOR", ")").p, [f EXCEPT !.pc = "then", !.c = r],
                 parseBlockFrame)
      [] f.pc = "then" ->
            IF currentValue(p) = "else"
            THEN Call(advance(p), [f EXCEPT !.pc = "else", !.ib = r], parseBlockFrame)
            ELSE Return(p, IfStatementNode(f.c, r, NULL))
      [] f.pc = "else" ->
            Return(p, IfStatementNode(f.c, f.ib, r))

\* parseForLoop(): main.js and the first parser.js parse the increment with
\* parseAssignment(true), the second parser.js with an optional parseExpression()
parseForLoop(p, f, r) ==
    CASE f.pc = "start" ->
            LET kw == expect(p, "KEYWORD", "for")
                open == expect(kw.p, "SEPARATOR", "(")
            IN  Call(open.p, [f EXCEPT !.pc = "init"], parseVariableDeclarationFrame)
      [] f.pc = "init" ->
            Call(p, [f EXCEPT !.pc = "cond", !.init = r], Frame("parseExpression"))
      [] f.pc = "cond" ->
            LET semi == expect(p, "SEPARATOR", ";")
                g == [f EXCEPT !.pc = "inc", !.cond = r]
            IN  IF p.build # "parser.js (part_002)"
                THEN Call(semi.p, g, parseAssignmentFrame(TRUE))
                ELSE IF currentType(semi.p) # "SEPARATOR" \/ currentValue(semi.p) # ")"
                THEN Call(semi.p, g, Frame("parseExpression"))
                ELSE Call(expect(semi.p, "SEPARATOR", ")").p, [g EXCEPT !.pc = "body"],
                          parseBlockFrame)
      [] f.pc = "inc" ->
            Call(expect(p, "SEPARATOR", ")").p, [f EXCEPT !.pc = "body", !.inc = r],
                 parseBlockFrame)
      [] f.pc = "body" ->
            Return(p, ForLoopNode(f.init, f.cond, f.inc, r))

\* parseReturnStatement()
parseReturnStatement(p, f, r) ==
    CASE f.pc = "start" ->
            LET kw == expect(p, "KEYWORD", "return")
            IN  IF currentValue(kw.p) # ";"
                THEN Call(kw.p, [f EXCEPT !.pc = "value"], Frame("parseExpression"))
                ELSE Return(expect(kw.p, "SEPARATOR", ";").p, ReturnStatementNode(NULL))
      [] f.pc = "value" ->
            Return(expect(p, "SEPARATOR", ";").p, ReturnStatementNode(r))

\* the five binary levels, lowest precedence first
BinaryLevels ==
    <<"parseLogicalOr", "parseLogicalAnd", "parseComparison", "parseTerm", "parseFactor">>

levelOf(fn) == CHOOSE i \in 1..Len(BinaryLevels) : BinaryLevels[i] = fn

\* a level that has called for an operand: n and o hold the left operand and the
\* operator once the loop has taken one
operandFrame(fn) == [fn |-> fn, pc |-> "operand", n |-> NULL, o |-> NULL]

\* The frames a call of parseExpression() or of a binary level stacks up before
\* the first token is looked at: each level starts by calling the next one for
\* its left operand, down to parsePrimary().
levelFrames(i) ==
    [j \in 1..(Len(BinaryLevels) - i + 1) |-> operandFrame(BinaryLevels[i + j - 1])]
        \o <<Frame("parsePrimary")>>

parseExpression == levelFrames(1)

\* what a call of the callee puts on the stack
enter(callee) ==
    IF callee.fn = "parseExpression" THEN parseExpression
    ELSE IF callee.fn = "operand" THEN levelFrames(callee.level)
    ELSE <<callee>>

\* the call a level makes for an operand: the next level, parsePrimary() at the last
nextLevel(fn) == [fn |-> "operand", level |-> levelOf(fn) + 1]

\* levelContinues with the operators of parseTerm and parseFactor exchanged
levelContinues_swapped(fn, p) ==
    CASE fn = "parseLogicalOr" -> currentValue(p) = "||"
      [] fn = "parseLogicalAnd" -> currentValue(p) = "&&"
      [] fn = "parseComparison" ->
            currentType(p) = "OPERATOR"
                /\ currentValue(p) \in {"<", ">", "==", "!=", "<=", ">="}
      [] fn = "parseTerm" ->
            currentType(p) = "OPERATOR" /\ currentValue(p) \in {"*", "/"}
      [] fn = "parseFactor" ->
            currentType(p) = "OPERATOR" /\ currentValue(p) \in {"+", "-"}

\* the condition of the while loop of each level
levelContinues(fn, p) ==
    CASE fn = "parseLogicalOr" -> currentValue(p) = "||"
      [] fn = "parseLogicalAnd" -> currentValue(p) = "&&"
      [] fn = "parseComparison" ->
            currentType(p) = "OPERATOR"
                /\ currentValue(p) \in {"<", ">", "==", "!=", "<=", ">="}
      [] fn = "parseTerm" ->
            currentType(p) = "OPERATOR" /\ currentValue(p) \in {"+", "-"}
      [] fn = "parseFactor" ->
            currentType(p) = "OPERATOR" /\ currentValue(p) \in {"*", "/"}

\* parseLogicalOr(), parseLogicalAnd(), parseComparison(), parseTerm(), parseFactor():
\* the loop, entered with the operand r that was just parsed
parseBinaryLevel(p, f, r) ==
    LET n == IF f.o = NULL THEN r ELSE BinaryOpNode(f.n, f.o.value, r)
    IN  IF levelContinues(f.fn, p)
        THEN Call(advance(p), [f EXCEPT !.n = n, !.o = currentToken(p)], nextLevel(f.fn))
        ELSE Return(p, n)

\* parsePrimary()
parsePrimary(p, f, r) ==
    CASE f.pc = "start" ->
            LET t == currentToken(p)
            IN  IF t = NULL THEN Return(error(p, "Unexpected EOF", NULL), NULL)
                ELSE IF t.type = "IDENTIFIER" /\ nextToken(p) # NULL
                                              /\ nextToken(p).value = "("
                THEN TailCall(p, parseFunctionCallExpressionFrame)
                ELSE IF t.type = "STRING_LIT" THEN Return(advance(p), StringLiteralNode(t))
                ELSE IF t.type \in {"FLOAT_LIT", "INT_LIT"}
                THEN Return(advance(p), NumberNode(t))
                ELSE IF t.type = "IDENTIFIER" THEN Return(advance(p), IdentifierNode(t))
                ELSE IF t.value = "("
                THEN Call(advance(p), [f EXCEPT !.pc = "paren"], Frame("parseExpression"))
                ELSE Return(error(p, "Invalid primary expression", NULL), NULL)
      [] f.pc = "paren" ->
            Return(expect(p, "SEPARATOR", ")").p, r)

\* parseFunctionCallExpression()
parseFunctionCallExpression(p, f, r) ==
    CASE f.pc = "start" ->
            LET nameToken == expect(p, "IDENTIFIER", "")
                open == expect(nameToken.p, "SEPARATOR", "(")
                g == [f EXCEPT !.nameToken = nameToken.tok]
            IN  IF currentValue(open.p) # ")"
                THEN Call(open.p, [g EXCEPT !.pc = "arg"], Frame("parseExpression"))
                ELSE Goto(open.p, [g EXCEPT !.pc = "close"])
      [] f.pc = "arg" ->
            IF currentValue(p) = ","
            THEN Call(advance(p), [f EXCEPT !.args = Append(@, r)], Frame("parseExpression"))
            ELSE Goto(p, [f EXCEPT !.pc = "close", !.args = Append(@, r)])
      [] f.pc = "close" ->
            IF f.nameToken = NULL THEN Throw(expect(p, "SEPARATOR", ")").p, NullValueError)
            ELSE Return(expect(p, "SEPARATOR", ")").p,
                        FunctionCallNode(IdentifierNode(f.nameToken), f.args))

(***************************************************************************)
(* SymbolTable and SemanticAnalyzer.  scopes is the arena of every scope   *)
(* created, a scope's parent is an index into it (0 for null).  The walk   *)
(* is depth first: the agenda holds, innermost first, the visits and       *)
(* exitScope calls still to make.                                          *)
(***************************************************************************)
\* symbols starts as the object literal {}, whose reads see Object.prototype
ObjectPrototypeNames ==
    {"constructor", "toString", "toLocaleString", "valueOf", "hasOwnProperty",
     "isPrototypeOf", "propertyIsEnumerable", "__proto__", "__defineGetter__",
     "__defineSetter__", "__lookupGetter__", "__lookupSetter__"}

\* what symbols[name] reads for an inherited member: an object without type
InheritedMember == [type |-> "", params |-> <<>>]

SymbolTable(name, parent) == [name |-> name, parent |-> parent, symbols |-> <<>>]

\* this.symbols[name], NULL standing for undefined
symbolOf(scope, name) ==
    IF name \in DOMAIN scope.symbols THEN scope.symbols[name]
    ELSE IF name \in ObjectPrototypeNames THEN InheritedMember
    ELSE NULL

\* SymbolTable.define on scope i of the analyzer a
define(a, i, name, type, params) ==
    IF symbolOf(a.scopes[i], name) # NULL THEN [a |-> a, ok |-> FALSE]
    ELSE [a |-> [a EXCEPT !.scopes[i].symbols =
                    (name :> [type |-> type, params |-> params]) @@ @],
          ok |-> TRUE]

\* SymbolTable.lookup from scope i
RECURSIVE lookup(_, _, _)
lookup(a, i, name) ==
    IF i = 0 THEN NULL
    ELSE IF symbolOf(a.scopes[i], name) # NULL THEN symbolOf(a.scopes[i], name)
    ELSE lookup(a, a.scopes[i].parent, name)

\* index of globalScope in scopes
globalScope == 1

\* the analyzer right after its constructor
NewSemanticAnalyzer ==
    define([scopes |-> <<SymbolTable("global", 0)>>, currentScope |-> globalScope,
            errors |-> <<>>],
           globalScope, "printf", "function", <<>>).a

semanticError(a, message, node) ==
    [a EXCEPT !.errors = Append(@, [message |-> "Semantic Error: " \o message,
                                    line |-> node.token.line])]

enterScope(a, name) ==
    [a EXCEPT !.scopes = Append(@, SymbolTable(name, a.currentScope)),
              !.currentScope = Len(a.scopes) + 1]

\* exitScope going back to the global scope
exitScope_toGlobal(a) == [a EXCEPT !.currentScope = globalScope]

exitScope(a) == [a EXCEPT !.currentScope = a.scopes[a.currentScope].parent]

Visit(node) == [k |-> "visit", node |-> node]
ExitScope == [k |-> "exitScope"]

VisitEach(nodes) == [i \in 1..Len(nodes) |-> Visit(nodes[i])]

\* params.forEach(p => currentScope.define(p.paramName.name, p.paramType))
RECURSIVE defineParams(_, _, _)
defineParams(a, params, i) ==
    IF i > Len(params) THEN a
    ELSE defineParams(define(a, a.currentScope, params[i].paramName.name,
                             params[i].paramType, <<>>).a,
                      params, i + 1)

\* genericVisit(node): the children, in the order the constructor set them
genericVisit(node) ==
    CASE node.type = "ProgramNode" -> VisitEach(node.children)
      [] node.type = "BlockNode" -> VisitEach(node.statements)
      [] node.type = "FunctionCallNode" -> <<Visit(node.name)>> \o VisitEach(node.args)
      [] node.type = "UnaryOpNode" -> <<Visit(node.arg)>>
      [] OTHER -> <<>>

\* visitFunctionDefinitionNode registering the name in the scope it is visited in
visitFunctionDefinitionNode_currentScope(a, node) ==
    LET d == define(a, a.currentScope, node.name.name, "function", node.params)
        b == IF d.ok THEN d.a
             ELSE semanticError(a, "Function '" \o node.name.name
                                    \o "' already defined.", node.name)
    IN  [a |-> defineParams(enterScope(b, node.name.name), node.params, 1),
         todo |-> <<Visit(node.body), ExitScope>>]

\* visitFunctionDefinitionNode giving up on the function once its name is taken
visitFunctionDefinitionNode_skipRedefined(a, node) ==
    LET d == define(a, globalScope, node.name.name, "function", node.params)
    IN  IF d.ok
        THEN [a |-> defineParams(enterScope(d.a, node.name.name), node.params, 1),
              todo |-> <<Visit(node.body), ExitScope>>]
        ELSE [a |-> semanticError(a, "Function '" \o node.name.name
                                      \o "' already defined.", node.name),
              todo |-> <<>>]

\* visitFunctionDefinitionNode(node), up to the visit of the body
visitFunctionDefinitionNode(a, node) ==
    LET d == define(a, globalScope, node.name.name, "function", node.params)
        b == IF d.ok THEN d.a
             ELSE semanticError(a, "Function '" \o node.name.name
                                    \o "' already defined.", node.name)
    IN  [a |-> defineParams(enterScope(b, node.name.name), node.params, 1),
         todo |-> <<Visit(node.body), ExitScope>>]

\* visit(node): the analyzer after the node's own code, and the calls it makes next
visit(a, node) ==
    CASE node = NULL -> [a |-> a, todo |-> <<>>]
      [] node.type = "ProgramNode" -> [a |-> a, todo |-> genericVisit(node)]
      [] node.type = "FunctionDefinitionNode" -> visitFunctionDefinitionNode(a, node)
      [] node.type = "BlockNode" ->
            [a |-> enterScope(a, "block"), todo |-> genericVisit(node) \o <<ExitScope>>]
      [] node.type = "VariableDeclarationNode" ->
            LET d == define(a, a.currentScope, node.varName.name, "variable", <<>>)
            IN  [a |-> IF d.ok THEN d.a
                       ELSE semanticError(a, "Variable '" \o node.varName.name
                                              \o "' already declared.", node.varName),
                 todo |-> IF node.value # NULL THEN <<Visit(node.value)>> ELSE <<>>]
      [] node.type = "IdentifierNode" ->
            [a |-> IF lookup(a, a.currentScope, node.name) = NULL
                   THEN semanticError(a, "Undeclared variable '" \o node.name \o "'.", node)
                   ELSE a,
             todo |-> <<>>]
      [] node.type \in {"AssignmentNode", "BinaryOpNode"} ->
            [a |-> a, todo |-> <<Visit(node.left), Visit(node.right)>>]
      [] node.type = "IfStatementNode" ->
            [a |-> a,
             todo |-> <<Visit(node.condition), Visit(node.ifBody)>>
                        \o (IF node.elseBody # NULL THEN <<Visit(node.elseBody)>> ELSE <<>>)]
      [] node.type = "ForLoopNode" ->
            [a |-> enterScope(a, "for-loop"),
             todo |-> <<Visit(node.init), Visit(node.condition), Visit(node.increment),
                        Visit(node.body), ExitScope>>]
      [] node.type = "FunctionCallNode" ->
            LET func == lookup(a, a.currentScope, node.name.name)
            IN  [a |-> IF func = NULL
                       THEN semanticError(a, "Function '" \o node.name.name
                                              \o "' not defined.", node.name)
                       ELSE IF func.type # "function"
                       THEN semanticError(a, "'" \o node.name.name
                                              \o "' is not a function.", node.name)
                       ELSE a,
                 todo |-> genericVisit(node)]
      [] node.type = "ReturnStatementNode" -> [a |-> a, todo |-> <<Visit(node.value)>>]
      [] node.type \in {"ParamNode", "NumberNode", "StringLiteralNode"} ->
            [a |-> a, todo |-> <<>>]
      [] OTHER -> [a |-> a, todo |-> genericVisit(node)]

(***************************************************************************)
(* TACGenerator.  g = [tempCounter, labelCounter, code, build].  A visit   *)
(* returns the generator after it and the value it returned; "" stands for *)
(* null and undefined, which emit tests for truth.                         *)
(***************************************************************************)
NewTACGenerator(b) == [tempCounter |-> 0, labelCounter |-> 0, code |-> <<>>, build |-> b]

\* newTemp(): the name, and the generator with the counter advanced
newTemp(g) == [g |-> [g EXCEPT !.tempCounter = @ + 1],
               v |-> "t" \o ToString(g.tempCounter)]

\* newLabel without the increment of the counter
newLabel_noIncrement(g) == [g |-> g, v |-> "L" \o ToString(g.labelCounter)]

newLabel(g) == [g |-> [g EXCEPT !.labelCounter = @ + 1],
                v |-> "L" \o ToString(g.labelCounter)]

\* how a template literal prints a value
Shown(v) == IF v = "" THEN "null" ELSE v

\* emit(op, arg1 = null, arg2 = null, result = null)
instructionText(op, arg1, arg2, result) ==
    IF result # "" /\ arg2 # "" THEN result \o " = " \o Shown(arg1) \o " " \o op \o " " \o arg2
    ELSE IF result # "" /\ arg1 # "" THEN result \o " = " \o arg1
    ELSE IF arg1 # "" THEN op \o " " \o arg1
    ELSE op \o ":"

emit(g, op, arg1, arg2, result) ==
    [g EXCEPT !.code = Append(@, instructionText(op, arg1, arg2, result))]

\* emitParams pushing the last argument first
RECURSIVE emitParams_reversed(_, _, _)
emitParams_reversed(g, argTemps, i) ==
    IF i > Len(argTemps) THEN g
    ELSE emitParams_reversed(emit(g, "param", argTemps[Len(argTemps) + 1 - i], "", ""),
                             argTemps, i + 1)

\* argTemps.forEach(argTemp => this.emit('param', argTemp))
RECURSIVE emitParams(_, _, _)
emitParams(g, argTemps, i) ==
    IF i > Len(argTemps) THEN g
    ELSE emitParams(emit(g, "param", argTemps[i], "", ""), argTemps, i + 1)

\* the markers around a function body: main.js brackets it, tac.js labels it
functionBegin(g, name) ==
    IF g.build = "main.js" THEN emit(g, "func begin " \o name, "", "", "")
    ELSE emit(g, name, "", "", "")

functionEnd(g, name) ==
    IF g.build = "main.js" THEN emit(g, "func end " \o name, "", "", "") ELSE g

\* the opcode of the conditional branch: if_false in main.js, ifFalse in tac.js
branchOp(g) == IF g.build = "main.js" THEN "if_false" ELSE "ifFalse"

emitBranch(g, conditionTemp, label) ==
    emit(g, branchOp(g), conditionTemp, "goto " \o label, "")

RECURSIVE tacVisit(_, _)
RECURSIVE tacVisitEach(_, _, _)
RECURSIVE tacVisitArgs(_, _, _, _)
RECURSIVE tacVisitIfStatementNode_noJumpWithoutElse(_, _)
RECURSIVE tacVisitIfStatementNode(_, _)

\* nodes.forEach(n => this.visit(n))
\* (emit only appends, so the test always holds; it makes each visit finish
\* before the next one starts, as forEach does)
tacVisitEach(g, nodes, i) ==
    IF i > Len(nodes) THEN g
    ELSE LET r == tacVisit(g, nodes[i])
         IN  IF Len(g.code) <= Len(r.g.code) THEN tacVisitEach(r.g, nodes, i + 1)
             ELSE r.g

\* node.args.map(arg => this.visit(arg))
tacVisitArgs(g, args, i, vals) ==
    IF i > Len(args) THEN [g |-> g, v |-> vals]
    ELSE LET r == tacVisit(g, args[i])
         IN  tacVisitArgs(r.g, args, i + 1, Append(vals, r.v))

\* visitIfStatementNode falling through to one label when there is no else-branch
tacVisitIfStatementNode_noJumpWithoutElse(g, node) ==
    LET conditionTemp == tacVisit(g, node.condition)
        elseLabel == newLabel(conditionTemp.g)
        endLabel == newLabel(elseLabel.g)
        branch == emitBranch(endLabel.g, conditionTemp.v, elseLabel.v)
        ifBody == tacVisit(branch, node.ifBody).g
        jump == emit(emit(ifBody, "goto", endLabel.v, "", ""), elseLabel.v, "", "", "")
    IN  IF node.elseBody # NULL
        THEN [g |-> emit(tacVisit(jump, node.elseBody).g, endLabel.v, "", "", ""), v |-> ""]
        ELSE [g |-> emit(ifBody, elseLabel.v, "", "", ""), v |-> ""]

\* visitIfStatementNode(node)
tacVisitIfStatementNode(g, node) ==
    LET conditionTemp == tacVisit(g, node.condition)
        elseLabel == newLabel(conditionTemp.g)
        endLabel == newLabel(elseLabel.g)
        branch == emitBranch(endLabel.g, conditionTemp.v, elseLabel.v)
        ifBody == tacVisit(branch, node.ifBody).g
        jump == emit(emit(ifBody, "goto", endLabel.v, "", ""), elseLabel.v, "", "", "")
        elseBody == IF node.elseBody # NULL THEN tacVisit(jump, node.elseBody).g
                    ELSE jump
    IN  [g |-> emit(elseBody, endLabel.v, "", "", ""), v |-> ""]

\* visit(node)
tacVisit(g, node) ==
    CASE node = NULL -> [g |-> g, v |-> ""]
      [] node.type = "ProgramNode" -> [g |-> tacVisitEach(g, node.children, 1), v |-> ""]
      [] node.type = "FunctionDefinitionNode" ->
            LET body == tacVisit(functionBegin(g, node.name.name), node.body)
            IN  [g |-> functionEnd(body.g, node.name.name), v |-> ""]
      [] node.type = "BlockNode" -> [g |-> tacVisitEach(g, node.statements, 1), v |-> ""]
      [] node.type = "VariableDeclarationNode" ->
            IF node.value # NULL
            THEN LET valueTemp == tacVisit(g, node.value)
                 IN  [g |-> emit(valueTemp.g, "=", valueTemp.v, "", node.varName.name),
                      v |-> ""]
            ELSE [g |-> g, v |-> ""]
      [] node.type = "AssignmentNode" ->
            LET rightTemp == tacVisit(g, node.right)
            IN  [g |-> emit(rightTemp.g, "=", rightTemp.v, "", node.left.name),
                 v |-> node.left.name]
      [] node.type = "BinaryOpNode" ->
            LET leftTemp == tacVisit(g, node.left)
                rightTemp == tacVisit(leftTemp.g, node.right)
                resultTemp == newTemp(rightTemp.g)
            IN  [g |-> emit(resultTemp.g, node.op, leftTemp.v, rightTemp.v, resultTemp.v),
                 v |-> resultTemp.v]
      [] node.type \in {"NumberNode", "StringLiteralNode"} -> [g |-> g, v |-> node.value]
      [] node.type = "IdentifierNode" -> [g |-> g, v |-> node.name]
      [] node.type = "FunctionCallNode" ->
            LET argTemps == tacVisitArgs(g, node.args, 1, <<>>)
                pushed == emitParams(argTemps.g, argTemps.v, 1)
                resultTemp == newTemp(pushed)
            IN  [g |-> emit(resultTemp.g, "call", node.name.name,
                            ToString(Len(argTemps.v)), resultTemp.v),
                 v |-> resultTemp.v]
      [] node.type = "IfStatementNode" -> tacVisitIfStatementNode(g, node)
      [] node.type = "ForLoopNode" ->
            LET startLabel == newLabel(g)
                endLabel == newLabel(startLabel.g)
                init == tacVisit(endLabel.g, node.init).g
                start == emit(init, startLabel.v, "", "", "")
                conditionTemp == tacVisit(start, node.condition)
                branch == emitBranch(conditionTemp.g, conditionTemp.v, endLabel.v)
                body == tacVisit(branch, node.body).g
                increment == tacVisit(body, node.increment).g
            IN  [g |-> emit(emit(increment, "goto", startLabel.v, "", ""),
                            endLabel.v, "", "", ""),
                 v |-> ""]
      [] node.type = "ReturnStatementNode" ->
            IF node.value # NULL
            THEN LET valueTemp == tacVisit(g, node.value)
                 IN  [g |-> emit(valueTemp.g, "return", valueTemp.v, "", ""), v |-> ""]
            ELSE [g |-> emit(g, "return", "", "", ""), v |-> ""]
      [] OTHER -> [g |-> g, v |-> ""]

\* generate(ast) without the reset of the two counters
generate_noReset(g, tree) == tacVisit([g EXCEPT !.code = <<>>], tree).g

\* generate(ast)
generate(g, tree) ==
    tacVisit([g EXCEPT !.tempCounter = 0, !.labelCounter = 0, !.code = <<>>], tree).g

(***************************************************************************)
(* runAnalysis: comment stripping                                          *)
(***************************************************************************)
\* 1-based index of the first occurrence of sub at or after i, 0 if none
IndexOfString(s, sub, i) ==
    LET hits == {k \in i..(Len(s) - Len(sub) + 1) : SubSeq(s, k, k + Len(sub) - 1) = sub}
    IN  IF hits = {} THEN 0 ELSE CHOOSE k \in hits : \A j \in hits : k <= j

\* .replace(/\/\*[\s\S]*?\*\//g, ''): from each /* to the nearest */ after it
RECURSIVE StripBlockComments(_)
StripBlockComments(s) ==
    LET open == IndexOfString(s, "/*", 1)
        close == IF open = 0 THEN 0 ELSE IndexOfString(s, "*/", open + 2)
    IN  IF close = 0 THEN s
        ELSE SubSeq(s, 1, open - 1) \o StripBlockComments(Substring(s, close + 1))

\* .replace(/\/\/.*$/gm, ''): from each // to the end of its line
RECURSIVE StripLineComments(_)
StripLineComments(s) ==
    LET open == IndexOfString(s, "//", 1)
        ends == {k \in open..Len(s) : CharAt(s, k) \in LineTerminators}
        end == IF ends = {} THEN Len(s) + 1 ELSE CHOOSE k \in ends : \A j \in ends : k <= j
    IN  IF open = 0 THEN s
        ELSE SubSeq(s, 1, open - 1) \o StripLineComments(Substring(s, end - 1))

preprocessedCode(text) == StripLineComments(StripBlockComments(text))

(***************************************************************************)
(* Source programs.  A program is written as its lexemes and joined into   *)
(* text, a line break after every ; { and }.                               *)
(***************************************************************************)
MaxStmts == 2
MaxFuncs == 2
MaxSourceLen == 3

\* the longest chain of binary operators in the expressions enumerated
MaxOperators == 3
StepsPerToken == 8

RECURSIVE Join(_)
Join(lexemes) ==
    IF lexemes = <<>> THEN ""
    ELSE Head(lexemes) \o (IF Head(lexemes) \in {";", "{", "}"} THEN "\n" ELSE " ")
            \o Join(Tail(lexemes))

RECURSIVE Flatten(_)
Flatten(ss) == IF ss = <<>> THEN <<>> ELSE Head(ss) \o Flatten(Tail(ss))

SeqsUpTo(S, n) == UNION {[1..k -> S] : k \in 0..n}

\* statements of the grammar: declaration, assignment, call, if, for, return
Statements ==
    {<<"int", "y", "=", "1", "+", "2", "*", "a", ";">>,
     <<"a", "=", "(", "a", "-", "1", ")", "/", "2", ";">>,
     <<"printf", "(", "\"v\"", ",", "a", ")", ";">>,
     <<"if", "(", "a", "<", "1", "||", "a", "==", "b", "&&", "b", "!=", "2.5", ")",
       "{", "a", "=", "f", "(", "a", ",", "f", "(", "b", ",", "1", ")", ")", ";", "}">>,
     <<"if", "(", "b", ")", "{", "int", "x", ";", "}", "else", "{", "return", ";", "}">>,
     <<"for", "(", "int", "i", "=", "0", ";", "i", "<", "2", ";", "i", "=", "i", "+",
       "1", ")", "{", "f", "(", "i", ",", "a", ")", ";", "}">>}

Headers ==
    {<<"int", "f", "(", "int", "a", ",", "int", "b", ")">>,
     <<"void", "main", "(", ")">>}

Function(header, stmts) == header \o <<"{">> \o Flatten(stmts) \o <<"}">>

\* programs the grammar derives, each with the number of its function definitions
WellFormedPrograms ==
    {[text |-> Join(Function(h, b)), wellFormed |-> TRUE, functions |-> 1] :
        h \in Headers, b \in SeqsUpTo(Statements, MaxStmts)}
    \cup
    {[text |-> Join(Flatten([i \in 1..n |->
                  Function(<<"int", "f" \o ToString(i), "(", "int", "a", ")">>,
                           <<<<"return", "a", ";">>>>)])),
      wellFormed |-> TRUE, functions |-> n] : n \in 0..MaxFuncs}

\* the default program of the page
SampleProgram ==
    "int square(int n) {\n    return n * n;\n}\n\nint main() {\n    int x = 5;\n    \n"
    \o "    for (int i = 0; i < 2; i = i + 1) {\n        int y = square(i);\n"
    \o "        printf(\"val\", y);\n    }\n    \n    return x;\n}"

\* the program the README invites to paste, with its comment
ReadmeProgram ==
    "int square(int x) {\n    return x * x;\n}\n\nint main() {\n    int count = 5;\n"
    \o "    int result = 0;\n\n    // It handles loops!\n"
    \o "    for (int i = 0; i < count; i = i + 1) {\n        if (i > 2) {\n"
    \o "            result = result + square(i);\n        }\n    }\n\n"
    \o "    return result;\n}"

\* programs to edit: between them every construct of the grammar
BasePrograms ==
    {<<"int", "f", "(", "int", "a", ",", "int", "b", ")", "{",
       "return", "a", "+", "b", "*", "2", ";", "}">>,
     <<"void", "m", "(", ")", "{", "int", "x", "=", "f", "(", "1", ",", "2", ")", ";",
       "x", "=", "1", ";", "}">>,
     <<"void", "m", "(", ")", "{", "if", "(", "x", "<", "1", ")", "{", "x", "=", "1", ";", "}",
       "else", "{", "g", "(", "\"v\"", ")", ";", "}", "}">>,
     <<"void", "g", "(", ")", "{",
       "for", "(", "int", "i", "=", "0", ";", "i", "<", "2", ";", "i", "=", "i", "+", "1", ")",
       "{", "g", "(", ")", ";", "}", "}">>}

\* what an edit puts in place of a lexeme
Replacements == {"printf", "y", "1", "(", "}", ";", "="}

Replace(ls, i, l) == [ls EXCEPT ![i] = l]
Delete(ls, i) == SubSeq(ls, 1, i - 1) \o SubSeq(ls, i + 1, Len(ls))

\* the base programs with one lexeme replaced or deleted
EditedPrograms ==
    UNION {{[text |-> Join(Replace(b, i, l)), wellFormed |-> FALSE, functions |-> 0] :
                i \in 1..Len(b), l \in Replacements}
           \cup {[text |-> Join(Delete(b, i)), wellFormed |-> FALSE, functions |-> 0] :
                    i \in 1..Len(b)} : b \in BasePrograms}

\* names to declare: an ordinary one and one that Object.prototype also has
ScopeNames == {"x", "toString"}

\* programs that declare and use the name n in the same, nested and sibling scopes
ScopePrograms(n) ==
    {[text |-> Join(<<"void", "m", "(", ")", "{", "int", n, ";", "int", n, ";", "}">>),
      wellFormed |-> TRUE, functions |-> 1],
     [text |-> Join(<<"void", "m", "(", ")", "{", "int", n, ";",
                      "if", "(", "1", ")", "{", "int", n, ";", n, "=", "1", ";", "}",
                      n, "=", "2", ";", "}">>),
      wellFormed |-> TRUE, functions |-> 1],
     [text |-> Join(<<"int", "f", "(", "int", n, ")", "{", "int", n, ";",
                      "return", n, ";", "}">>),
      wellFormed |-> TRUE, functions |-> 1],
     [text |-> Join(<<"void", "m", "(", ")", "{",
                      "if", "(", "1", ")", "{", "int", n, ";", "}",
                      "else", "{", n, "=", "1", ";", "}",
                      n, "=", "2", ";", "}">>),
      wellFormed |-> TRUE, functions |-> 1],
     [text |-> Join(<<"void", "m", "(", ")", "{", "int", n, ";",
                      "for", "(", "int", "i", "=", "0", ";", "i", "<", n, ";",
                      "i", "=", "i", "+", "1", ")", "{",
                      "if", "(", n, ")", "{", n, "=", "i", ";", "}", "}", "}">>),
      wellFormed |-> TRUE, functions |-> 1],
     [text |-> Join(<<"int", n, "(", ")", "{", "return", "1", ";", "}",
                      "int", n, "(", "int", "a", ")", "{",
                      "int", "b", "=", n, "(", ")", ";", "return", "c", ";", "}">>),
      wellFormed |-> TRUE, functions |-> 2]}

\* programs that call the function n before its definition, inside it and after it
CallOrderPrograms(n) ==
    {[text |-> Join(<<"int", "f", "(", ")", "{", "return", n, "(", ")", ";", "}",
                      "int", n, "(", ")", "{", "return", "f", "(", ")", ";", "}">>),
      wellFormed |-> TRUE, functions |-> 2],
     [text |-> Join(<<"int", n, "(", ")", "{", "return", n, "(", ")", ";", "}">>),
      wellFormed |-> TRUE, functions |-> 1]}

SemanticPrograms == UNION {ScopePrograms(n) \cup CallOrderPrograms(n) : n \in ScopeNames}

\* programs whose lowering has a shape of its own: an empty else-branch, a return
\* inside a branch, a loop with an empty body, calls without arguments and with
\* calls as arguments, a variable with the name of a temporary
LoweringPrograms ==
    {[text |-> Join(<<"int", "f", "(", "int", "a", ",", "int", "b", ")", "{">> \o b \o <<"}">>),
      wellFormed |-> TRUE, functions |-> 1] :
        b \in {<<"if", "(", "a", ")", "{", "b", "=", "1", ";", "}", "else", "{", "}">>,
               <<"if", "(", "a", "<", "b", ")", "{", "return", "b", ";", "}",
                 "else", "{", "b", "=", "f", "(", "a", ",", "b", ")", ";", "}",
                 "return", "a", ";">>,
               <<"if", "(", "a", ")", "{", "}">>,
               <<"for", "(", "int", "i", "=", "0", ";", "i", "<", "2", ";",
                 "i", "=", "i", "+", "1", ")", "{", "}">>,
               <<"printf", "(", ")", ";", "a", "=", "f", "(", "f", "(", "b", ",", "1", ")",
                 ",", "f", "(", "a", "+", "1", ",", "2", ")", ")", ";">>,
               <<"int", "t0", "=", "1", ";", "int", "x", "=", "a", "+", "b", ";",
                 "return", "t0", ";">>}}

\* one operator of every binary level, two of the levels the claims name twice
ExpressionOperators == {"||", "&&", "<", "==", "+", "-", "*"}

\* a b a b ... joined by the operators
RECURSIVE Operation(_, _)
Operation(ops, i) ==
    IF i > Len(ops) THEN <<IF i % 2 = 1 THEN "a" ELSE "b">>
    ELSE <<IF i % 2 = 1 THEN "a" ELSE "b", ops[i]>> \o Operation(ops, i + 1)

\* a function that returns an expression without parentheses, for every choice of
\* at most MaxOperators operators
ExpressionPrograms ==
    {[text |-> Join(<<"int", "f", "(", "int", "a", ",", "int", "b", ")", "{", "return">>
                        \o Operation(ops, 1) \o <<";", "}">>),
      wellFormed |-> TRUE, functions |-> 1] :
        ops \in UNION {[1..k -> ExpressionOperators] : k \in 1..MaxOperators}}

Unknown(text) == [text |-> text, wellFormed |-> FALSE, functions |-> 0]

\* a function whose body uses the control keyword: if and else, for, return, and
\* while, which the keyword rule takes and the README lists
ControlProgram(keyword) ==
    Unknown(Join(<<"int", "f", "(", "int", "a", ",", "int", "b", ")", "{">> \o
        (CASE keyword = "if" ->
                <<"if", "(", "a", "<", "b", ")", "{", "a", "=", "b", ";", "}",
                  "else", "{", "b", "=", "a", ";", "}">>
           [] keyword = "for" ->
                <<"for", "(", "int", "i", "=", "0", ";", "i", "<", "b", ";",
                  "i", "=", "i", "+", "1", ")", "{", "a", "=", "a", "+", "i", ";", "}">>
           [] keyword = "return" -> <<"return", "a", ";">>
           [] keyword = "while" ->
                <<"while", "(", "a", "<", "b", ")", "{", "a", "=", "a", "+", "1", ";", "}">>)
        \o <<"}">>))

ControlKeywords == {"if", "for", "return", "while"}

ControlPrograms == {ControlProgram(k) : k \in ControlKeywords}

\* a function whose body increments or decrements a variable with ++ or --, as a
\* statement and as the step of a for loop
IncrementPrograms ==
    {Unknown(Join(<<"int", "f", "(", "int", "a", ",", "int", "b", ")", "{">> \o b \o <<"}">>)) :
        b \in {<<"a++", ";", "return", "a", ";">>,
               <<"b--", ";", "return", "b", ";">>,
               <<"for", "(", "int", "i", "=", "0", ";", "i", "<", "b", ";", "i++", ")",
                 "{", "a", "=", "a", "+", "i", ";", "}">>}}

\* a function with the name of a label, with an if and a for in its body
LabelNamedProgram ==
    [text |-> Join(<<"int", "L0", "(", ")", "{", "if", "(", "1", ")", "{", "}",
                     "for", "(", "int", "i", "=", "0", ";", "i", "<", "2", ";",
                     "i", "=", "i", "+", "1", ")", "{", "}", "}">>),
     wellFormed |-> TRUE, functions |-> 1]

\* every string of at most n characters over the alphabet
RECURSIVE Strings(_, _)
Strings(alphabet, n) ==
    IF n = 0 THEN {""}
    ELSE LET shorter == Strings(alphabet, n - 1)
         IN  shorter \cup {s \o c : s \in shorter, c \in alphabet}

LexAlphabet == {"1", ".", "i", "f", "\"", "=", "+", "&", "(", " ", "\n", "\r", "@"}

\* texts with numeric literals longer than the short texts reach, and one with
\* tokens on two lines
LexSamples == {"3.14", "x = 3.14;", "12.5.7", "10. 5", "2 .5", "i1 \n f"}

Builds == {"main.js", "parser.js (part_001)", "parser.js (part_002)"}

(***************************************************************************)
(* State machine                                                           *)
(***************************************************************************)
Start(inputs, builds) ==
    /\ input \in inputs
    /\ build \in builds
    /\ pc = "lex"
    /\ shown = "none"
    /\ thrown = ""
    /\ code = preprocessedCode(input.text)
    /\ remainingCode = code
    /\ line = 1
    /\ col = 1
    /\ tokens = <<>>
    /\ pos = 0
    /\ errors = <<>>
    /\ stack = <<>>
    /\ ret = NULL
    /\ ast = NULL
    /\ expectLog = <<>>
    /\ steps = 0
    /\ scopes = <<>>
    /\ currentScope = 0
    /\ semErrors = <<>>
    /\ agenda = <<>>
    /\ analyzed = FALSE
    /\ intermediateCode = <<>>
    /\ generated = FALSE
    /\ generator = NULL

\* the catch block of runAnalysis
Critical(message) ==
    /\ thrown' = message
    /\ shown' = "critical"
    /\ pc' = "done"

\* Lexer.tokenize, one iteration of its loop
TokenizeStep ==
    /\ pc = "lex"
    /\ remainingCode # ""
    /\ LET st == LexIteration([remainingCode |-> remainingCode, line |-> line,
                               col |-> col, tokens |-> tokens, thrown |-> ""])
       IN  /\ remainingCode' = st.remainingCode
           /\ line' = st.line
           /\ col' = st.col
           /\ tokens' = st.tokens
           /\ IF st.thrown # "" THEN Critical(st.thrown)
              ELSE UNCHANGED <<pc, shown, thrown>>
    /\ UNCHANGED <<input, build, code, parseVars, semVars, tacVars>>

\* Lexer.tokenize leaves its loop and returns the tokens
TokenizeReturn ==
    /\ pc = "lex"
    /\ remainingCode = ""
    /\ pc' = "lexed"
    /\ UNCHANGED <<input, build, shown, thrown, lexVars, parseVars, semVars, tacVars>>

\* Lexer.tokenize as a whole, then new Parser([...tokens]) and the call of parse()
Tokenize ==
    /\ pc = "lex"
    /\ LET st == tokenize([remainingCode |-> remainingCode, line |-> line,
                           col |-> col, tokens |-> tokens, thrown |-> ""])
       IN  /\ remainingCode' = st.remainingCode
           /\ line' = st.line
           /\ col' = st.col
           /\ tokens' = st.tokens
           /\ IF st.thrown # ""
              THEN Critical(st.thrown) /\ UNCHANGED <<pos, errors, stack>>
              ELSE /\ pc' = "parse"
                   /\ pos' = 0
                   /\ errors' = <<>>
                   /\ stack' = <<parseFrame>>
                   /\ UNCHANGED <<shown, thrown>>
    /\ UNCHANGED <<input, build, code, ret, ast, expectLog, steps, semVars, tacVars>>

Top == stack[Len(stack)]

Callers == SubSeq(stack, 1, Len(stack) - 1)

ParserObject ==
    [tokens |-> tokens, pos |-> pos, errors |-> errors, log |-> <<>>, build |-> build]

\* the effect on the machine of one step's outcome
Apply(out) ==
    /\ pos' = out.p.pos
    /\ errors' = out.p.errors
    /\ expectLog' = out.p.log
    /\ steps' = steps + 1
    /\ CASE out.k = "goto" ->
                /\ stack' = Append(Callers, out.f)
                /\ ret' = NULL
                /\ UNCHANGED <<pc, shown, thrown, ast>>
         [] out.k = "call" ->
                /\ stack' = Append(Callers, out.f) \o enter(out.callee)
                /\ ret' = NULL
                /\ UNCHANGED <<pc, shown, thrown, ast>>
         [] out.k = "tail" ->
                /\ stack' = Callers \o enter(out.callee)
                /\ ret' = NULL
                /\ UNCHANGED <<pc, shown, thrown, ast>>
         [] out.k = "return" ->
                /\ stack' = Callers
                /\ ret' = out.v
                /\ IF Callers = <<>>
                   THEN ast' = out.v /\ pc' = "parsed" /\ UNCHANGED <<shown, thrown>>
                   ELSE UNCHANGED <<pc, shown, thrown, ast>>
         [] out.k = "throw" ->
                /\ stack' = <<>>
                /\ ret' = NULL
                /\ Critical(out.msg)
                /\ UNCHANGED ast
    /\ UNCHANGED <<input, build, lexVars, semVars, tacVars>>

Running(fns) == pc = "parse" /\ stack # <<>> /\ Top.fn \in fns

Parse == Running({"parse"}) /\ Apply(parse(ParserObject, Top, ret))

ParseFunctionDefinition ==
    Running({"parseFunctionDefinition"})
        /\ Apply(parseFunctionDefinition(ParserObject, Top, ret))

ParseBlock == Running({"parseBlock"}) /\ Apply(parseBlock(ParserObject, Top, ret))

Recover == Running({"recover"}) /\ Apply(recover(ParserObject, Top, ret))

ParseStatement ==
    Running({"parseStatement"}) /\ Apply(parseStatement(ParserObject, Top, ret))

ParseVariableDeclaration ==
    Running({"parseVariableDeclaration"})
        /\ Apply(parseVariableDeclaration(ParserObject, Top, ret))

ParseAssignment ==
    Running({"parseAssignment"}) /\ Apply(parseAssignment(ParserObject, Top, ret))

ParseFunctionCallStatement ==
    Running({"parseFunctionCallStatement"})
        /\ Apply(parseFunctionCallStatement(ParserObject, Top, ret))

ParseIfStatement ==
    Running({"parseIfStatement"}) /\ Apply(parseIfStatement(ParserObject, Top, ret))

ParseForLoop == Running({"parseForLoop"}) /\ Apply(parseForLoop(ParserObject, Top, ret))

ParseReturnStatement ==
    Running({"parseReturnStatement"})
        /\ Apply(parseReturnStatement(ParserObject, Top, ret))

ParseBinaryLevel ==
    Running({BinaryLevels[i] : i \in 1..Len(BinaryLevels)}) /\ Apply(parseBinaryLevel(ParserObject, Top, ret))

ParsePrimary == Running({"parsePrimary"}) /\ Apply(parsePrimary(ParserObject, Top, ret))

ParseFunctionCallExpression ==
    Running({"parseFunctionCallExpression"})
        /\ Apply(parseFunctionCallExpression(ParserObject, Top, ret))

\* runAnalysis after parse(): analyze only an error-free parse
AfterParse ==
    /\ pc = "parsed"
    /\ IF Len(errors) = 0 /\ ast # NULL
       THEN /\ scopes' = NewSemanticAnalyzer.scopes
            /\ currentScope' = NewSemanticAnalyzer.currentScope
            /\ semErrors' = NewSemanticAnalyzer.errors
            /\ agenda' = <<Visit(ast)>>
            /\ analyzed' = TRUE
            /\ pc' = "analyze"
       ELSE /\ pc' = "display"
            /\ UNCHANGED semVars
    /\ UNCHANGED <<input, build, shown, thrown, lexVars, parseVars, tacVars>>

Analyzer == [scopes |-> scopes, currentScope |-> currentScope, errors |-> semErrors]

SetAnalyzer(a) ==
    /\ scopes' = a.scopes
    /\ currentScope' = a.currentScope
    /\ semErrors' = a.errors

\* SemanticAnalyzer.visit(node) for the next node of the walk
SemVisit ==
    /\ pc = "analyze"
    /\ agenda # <<>>
    /\ Head(agenda).k = "visit"
    /\ LET v == visit(Analyzer, Head(agenda).node)
       IN  /\ SetAnalyzer(v.a)
           /\ agenda' = v.todo \o Tail(agenda)
    /\ UNCHANGED <<input, build, pc, shown, thrown, lexVars, parseVars, analyzed, tacVars>>

\* SemanticAnalyzer.exitScope()
SemExitScope ==
    /\ pc = "analyze"
    /\ agenda # <<>>
    /\ Head(agenda).k = "exitScope"
    /\ SetAnalyzer(exitScope(Analyzer))
    /\ agenda' = Tail(agenda)
    /\ UNCHANGED <<input, build, pc, shown, thrown, lexVars, parseVars, analyzed, tacVars>>

\* AfterAnalyze without the test of semanticErrors.length
AfterAnalyze_ungated ==
    /\ pc = "analyze"
    /\ agenda = <<>>
    /\ pc' = "generate"
    /\ UNCHANGED <<input, build, shown, thrown, lexVars, parseVars, semVars, tacVars>>

\* runAnalysis after analyze(): generate only without semantic errors
AfterAnalyze ==
    /\ pc = "analyze"
    /\ agenda = <<>>
    /\ pc' = IF Len(semErrors) = 0 THEN "generate" ELSE "display"
    /\ UNCHANGED <<input, build, shown, thrown, lexVars, parseVars, semVars, tacVars>>

\* new TACGenerator().generate(ast)
Generate ==
    /\ pc = "generate"
    /\ generator' = generate(NewTACGenerator(build), ast)
    /\ intermediateCode' = generator'.code
    /\ generated' = TRUE
    /\ pc' = "display"
    /\ UNCHANGED <<input, build, shown, thrown, lexVars, parseVars, semVars>>

\* displayResults(tokens, intermediateCode, scopes, [...syntaxErrors, ...semanticErrors])
DisplayResults ==
    /\ pc = "display"
    /\ shown' = IF Len(errors \o semErrors) > 0 THEN "errors" ELSE "results"
    /\ pc' = "done"
    /\ UNCHANGED <<input, build, thrown, lexVars, parseVars, semVars, tacVars>>

Next ==
    \/ Tokenize
    \/ Parse
    \/ ParseFunctionDefinition
    \/ ParseBlock
    \/ Recover
    \/ ParseStatement
    \/ ParseVariableDeclaration
    \/ ParseAssignment
    \/ ParseFunctionCallStatement
    \/ ParseIfStatement
    \/ ParseForLoop
    \/ ParseReturnStatement
    \/ ParseBinaryLevel
    \/ ParsePrimary
    \/ ParseFunctionCallExpression
    \/ AfterParse
    \/ SemVisit
    \/ SemExitScope
    \/ AfterAnalyze
    \/ Generate
    \/ DisplayResults

Programs ==
    WellFormedPrograms \cup EditedPrograms \cup SemanticPrograms \cup LoweringPrograms
        \cup ExpressionPrograms \cup ControlPrograms \cup IncrementPrograms \cup {LabelNamedProgram}
        \cup {[text |-> SampleProgram, wellFormed |-> TRUE, functions |-> 2],
              [text |-> ReadmeProgram, wellFormed |-> TRUE, functions |-> 2]}

Init == Start(Programs, Builds)

Spec == Init /\ [][Next]_vars

\* a second call of generate(ast) on the generator of the first
GenerateAgain ==
    /\ pc = "display"
    /\ generated
    /\ generator' = generate(generator, ast)
    /\ intermediateCode' = generator'.code
    /\ pc' = "regenerated"
    /\ UNCHANGED <<input, build, shown, thrown, lexVars, parseVars, semVars, generated>>

NextTac == Next \/ GenerateAgain

\* runAnalysis, and a caller that keeps the generator for a second run
SpecTac == Init /\ [][NextTac]_vars

\* an identifier token on the given line, and the node the parser makes of it
Name(n, l) == IdentifierNode([type |-> "IDENTIFIER", value |-> n, line |-> l, col |-> 1])

\* int inner(int a) { return a; }
InnerFunction(inner) ==
    FunctionDefinitionNode("int", Name(inner, 3), <<ParamNode("int", Name("a", 3))>>,
                           BlockNode(<<ReturnStatementNode(Name("b", 4))>>))

\* trees a caller of analyze can build: a function definition below the top level
\* (depth blocks deep inside the body of outer), called from there and from a
\* later function
NestedTree(outer, inner, depth) ==
    LET call(l) == FunctionCallNode(Name(inner, l), <<>>)
        nested == IF depth = 1 THEN <<InnerFunction(inner), call(5)>>
                  ELSE <<IfStatementNode(Name(outer, 2),
                                         BlockNode(<<InnerFunction(inner), call(5)>>),
                                         NULL)>>
    IN  ProgramNode(<<FunctionDefinitionNode("void", Name(outer, 1), <<>>, BlockNode(nested)),
                      FunctionDefinitionNode("void", Name("k", 7), <<>>,
                                             BlockNode(<<call(8)>>))>>)

FunctionNames == {"f", "g", "toString"}

NestedTrees ==
    {NestedTree(outer, inner, depth) :
        outer \in FunctionNames, inner \in FunctionNames, depth \in 1..2}

\* new SemanticAnalyzer().analyze(tree) on the trees above
InitSem ==
    /\ input = Unknown("")
    /\ build = "main.js"
    /\ pc = "analyze"
    /\ shown = "none"
    /\ thrown = ""
    /\ code = ""
    /\ remainingCode = ""
    /\ line = 1
    /\ col = 1
    /\ tokens = <<>>
    /\ pos = 0
    /\ errors = <<>>
    /\ stack = <<>>
    /\ ret = NULL
    /\ ast \in NestedTrees
    /\ expectLog = <<>>
    /\ steps = 0
    /\ scopes = NewSemanticAnalyzer.scopes
    /\ currentScope = NewSemanticAnalyzer.currentScope
    /\ semErrors = NewSemanticAnalyzer.errors
    /\ agenda = <<Visit(ast)>>
    /\ analyzed = TRUE
    /\ intermediateCode = <<>>
    /\ generated = FALSE
    /\ generator = NULL

\* analyze returns when the walk is over
AnalyzeReturn ==
    /\ pc = "analyze"
    /\ agenda = <<>>
    /\ pc' = "analyzed"
    /\ UNCHANGED <<input, build, shown, thrown, lexVars, parseVars, semVars, tacVars>>

NextSem == SemVisit \/ SemExitScope \/ AnalyzeReturn

SpecSem == InitSem /\ [][NextSem]_vars

\* the lexer alone, on every short text
InitLex ==
    Start({Unknown(s) : s \in Strings(LexAlphabet, MaxSourceLen) \cup LexSamples},
          {"main.js"})

NextLex == TokenizeStep \/ TokenizeReturn

SpecLex == InitLex /\ [][NextLex]_vars

(***************************************************************************)
(* Properties                                                              *)
(***************************************************************************)
Contains(s, sub) == IndexOfString(s, sub, 1) > 0

EndsWith(s, suffix) ==
    Len(s) >= Len(suffix) /\ SubSeq(s, Len(s) - Len(suffix) + 1, Len(s)) = suffix

\* C1: analyze is invoked only after a parse without syntax errors, generate only
\* when the syntax-error list and the semantic-error list are both empty, and
\* whenever either list is non-empty the TAC sequence is empty.
C1_StagesGated ==
    /\ analyzed => Len(errors) = 0
    /\ generated => Len(errors) = 0 /\ Len(semErrors) = 0
    /\ (Len(errors) > 0 \/ Len(semErrors) > 0) => intermediateCode = <<>>
    /\ (pc = "generate" \/ intermediateCode # <<>>) => analyzed

\* a run that was analyzed, found semantic errors and ended without TAC
C1_Witness ==
    pc = "done" /\ analyzed /\ Len(semErrors) > 0 /\ ~generated /\ shown = "errors"

\* C2: parse() always returns normally: whatever the tokens, no exception leaves
\* the parser, a syntax violation only adds to the errors list.
C2_ParseNeverThrows == thrown = "" \/ StartsWith(thrown, "Lexer error: ")

\* the two messages that report a name nothing declares
UndefinedReferenceMessages(name) ==
    {"Semantic Error: Function '" \o name \o "' not defined.",
     "Semantic Error: Undeclared variable '" \o name \o "'."}

\* C3: every occurrence of a name that nothing declares, called or referenced,
\* yields exactly one semantic error carrying the line of its token: the errors
\* about a name on a line are no more than the tokens of that name on that line.
C3_OneErrorPerOccurrence ==
    \A k \in 1..Len(tokens) :
        LET t == tokens[k]
        IN  Cardinality({i \in 1..Len(semErrors) :
                            /\ semErrors[i].line = t.line
                            /\ semErrors[i].message \in UndefinedReferenceMessages(t.value)})
                <= Cardinality({j \in 1..Len(tokens) :
                                    tokens[j].value = t.value /\ tokens[j].line = t.line})

\* a conditional branch instruction, in either spelling of its opcode
IsBranch(text) == StartsWith(text, "if_false ") \/ StartsWith(text, "ifFalse ")

\* C4: the conditional branch emitted for an if statement or a for loop names its
\* jump target: the text of the instruction contains the label allocated for it.
C4_BranchNamesLabel ==
    \A i \in 1..Len(intermediateCode) :
        IsBranch(intermediateCode[i]) =>
            \E k \in 0..Len(intermediateCode) :
                Contains(intermediateCode[i], "goto L" \o ToString(k))

\* parseFunctionDefinition itself has just recorded a syntax error and goes on:
\* the parameter list and the closing parenthesis are reached by its own steps only
HeaderErrorRecorded ==
    /\ Running({"parseFunctionDefinition"})
    /\ Top.pc \in {"param", "close"}
    /\ \E i \in 1..Len(expectLog) : expectLog[i].result = NULL

C6_WellFormedParses ==
    (pc = "parsed" /\ input.wellFormed) =>
        /\ Len(errors) = 0
        /\ ast.type = "ProgramNode"
        /\ Len(ast.children) = input.functions

\* C7: parse() terminates on every token sequence: while it runs some function of
\* the parser has a step to take, and it returns, or throws, within a number of
\* steps in proportion to the number of tokens.
C7_ParseTerminates ==
    /\ steps <= StepsPerToken * (Len(tokens) + 1)
    /\ pc = "parse" =>
            /\ stack # <<>>
            /\ Top.fn \in {"parse", "parseFunctionDefinition", "parseBlock", "recover",
                            "parseStatement", "parseVariableDeclaration", "parseAssignment",
                            "parseFunctionCallStatement", "parseIfStatement", "parseForLoop",
                            "parseReturnStatement", "parsePrimary",
                            "parseFunctionCallExpression"}
                           \cup {BinaryLevels[i] : i \in 1..Len(BinaryLevels)}

\* a parse that returned after recording errors and reading every token
C7_Witness ==
    pc = "parsed" /\ Len(errors) > 1 /\ pos = Len(tokens) /\ Len(tokens) > 0

\* the token the call of expect met is the one it asked for
Matches(e) ==
    /\ e.current # NULL
    /\ e.current.type = e.ty
    /\ (e.v = "" \/ e.current.value = e.v)

\* C8: a failing expect appends exactly one error and returns null, advancing by
\* one past a current token, whose line the message carries, and staying put at
\* the end of the stream, where the message says EOF; a succeeding expect
\* appends no error, returns the token and advances by one.
C8_Expect ==
    \A i \in 1..Len(expectLog) :
        LET e == expectLog[i]
            m == e.errors1[Len(e.errors1)].message
        IN  IF Matches(e)
            THEN e.result = e.current /\ e.pos1 = e.pos0 + 1 /\ e.errors1 = e.errors0
            ELSE /\ e.result = NULL
                 /\ Len(e.errors1) = Len(e.errors0) + 1
                 /\ SubSeq(e.errors1, 1, Len(e.errors0)) = e.errors0
                 /\ IF e.current # NULL
                    THEN /\ e.pos1 = e.pos0 + 1
                         /\ EndsWith(m, " at line " \o ToString(e.current.line))
                    ELSE /\ e.pos1 = e.pos0
                         /\ EndsWith(m, " at EOF")

\* one step in which expect fails on a token and then fails at the end of the stream
C8_Witness ==
    \E i, j \in 1..Len(expectLog) :
        /\ ~Matches(expectLog[i]) /\ expectLog[i].current # NULL
        /\ ~Matches(expectLog[j]) /\ expectLog[j].current = NULL

\* the step in which recover() returns to parseBlock
RecoverReturns == Running({"recover"}) /\ Len(stack') = Len(stack) - 1

\* C9: recover() consumes one token at a time and never a closing brace; when it
\* returns, the stream is exhausted, or the current token is a closing brace, or
\* the token it consumed last is a semicolon; the block then goes on with its loop,
\* the statements it had collected intact.
C9_Recover ==
    [][Running({"recover"}) =>
            /\ pos' \in {pos, pos + 1}
            /\ errors' = errors
            /\ pos' = pos + 1 => tokens[pos'].value # "}"
            /\ RecoverReturns =>
                    /\ \/ pos' >= Len(tokens)
                       \/ tokens[pos' + 1].value = "}"
                       \/ pos' = pos + 1 /\ tokens[pos'].value = ";"
                    /\ pc' = "parse"
                    /\ stack' = SubSeq(stack, 1, Len(stack) - 1)
                    /\ Top'.fn = "parseBlock" /\ Top'.pc = "loop"]_vars

\* the body of the only function: a statement was invalid, recovery ran, and a
\* statement after it has been parsed and is about to join the block
C9_Witness ==
    /\ pc = "parse"
    /\ Len(stack) = 3
    /\ Top.fn = "parseBlock" /\ Top.pc = "stmt"
    /\ ret.type = "AssignmentNode"
    /\ Len(errors) = 1
    /\ StartsWith(errors[1].message, "Syntax Error: Invalid statement")

RECURSIVE StripWhitespace(_)
StripWhitespace(s) ==
    IF s = "" THEN ""
    ELSE (IF CharAt(s, 1) \in Whitespace THEN "" ELSE CharAt(s, 1))
            \o StripWhitespace(Substring(s, 1))

RECURSIVE TokenText(_)
TokenText(ts) == IF ts = <<>> THEN "" ELSE Head(ts).value \o TokenText(Tail(ts))

\* C10: tokenize never throws: every character that is not whitespace is in some
\* token, in order, a character no other rule takes being a MISMATCH token of
\* one character.
C10_TokenizeNeverThrows ==
    /\ thrown = ""
    /\ pc \in {"lex", "lexed"}
    /\ StripWhitespace(code) = StripWhitespace(TokenText(tokens) \o remainingCode)
    /\ \A i \in 1..Len(tokens) : tokens[i].type = "MISMATCH" => Len(tokens[i].value) = 1

\* a text tokenized to the end with a MISMATCH token among others
C10_Witness ==
    /\ pc = "lexed"
    /\ Len(tokens) >= 2
    /\ \E i \in 1..Len(tokens) : tokens[i].type = "MISMATCH"

\* length of the longest prefix of s of the form digits, dot, digits; 0 if none
FloatLexeme(s) ==
    LET ends == {n \in 3..Len(s) :
                    \E d \in 1..(n - 2) :
                        /\ \A i \in 1..d : CharAt(s, i) \in Digits
                        /\ CharAt(s, d + 1) = "."
                        /\ \A i \in (d + 2)..n : CharAt(s, i) \in Digits}
    IN  IF ends = {} THEN 0 ELSE CHOOSE n \in ends : \A m \in ends : m <= n

\* s without its leading whitespace
SkipWhitespace(s) ==
    LET firsts == {i \in 1..Len(s) : CharAt(s, i) \notin Whitespace}
    IN  IF firsts = {} THEN ""
        ELSE SubSeq(s, CHOOSE i \in firsts : \A j \in firsts : i <= j, Len(s))

\* C11: the text "3.14" tokenizes to the single token FLOAT_LIT "3.14"; and whenever
\* the text at the current position is digits, a dot and digits, the iteration appends
\* one FLOAT_LIT token holding all of it (never an INT_LIT with the rest left over).
C11_FloatBeforeInt ==
    [][LET rest == SkipWhitespace(remainingCode)
           n == FloatLexeme(rest)
       IN  /\ (pc = "lex" /\ n > 0) =>
                /\ Len(tokens') = Len(tokens) + 1
                /\ tokens'[Len(tokens')].type = "FLOAT_LIT"
                /\ tokens'[Len(tokens')].value = SubSeq(rest, 1, n)
                /\ remainingCode' = Substring(rest, n)
           /\ (input.text = "3.14" /\ pc' = "lexed") =>
                tokens' = <<[type |-> "FLOAT_LIT", value |-> "3.14", line |-> 1, col |-> 1]>>
      ]_vars

C11_Witness ==
    /\ input.text = "3.14"
    /\ pc = "lexed"
    /\ Len(tokens) = 1
    /\ tokens[1].type = "FLOAT_LIT"

\* the analyzer is about to visit a node of the given type
Visiting(type) ==
    /\ pc = "analyze"
    /\ agenda # <<>>
    /\ Head(agenda).k = "visit"
    /\ Head(agenda).node.type = type

\* C12: a declaration of a name the current scope already declares adds exactly one
\* error naming it; a declaration of a name the current scope does not declare, be it
\* declared in an enclosing scope or nowhere, adds no error.
C12_Redeclaration ==
    [][Visiting("VariableDeclarationNode") =>
        LET varName == Head(agenda).node.varName
        IN  IF varName.name \in DOMAIN scopes[currentScope].symbols
            THEN semErrors' = Append(semErrors,
                    [message |-> "Semantic Error: Variable '" \o varName.name
                                    \o "' already declared.",
                     line |-> varName.token.line])
            ELSE semErrors' = semErrors
      ]_vars

\* the scope with index i and the scopes that enclose it
RECURSIVE ScopeChain(_)
ScopeChain(i) == IF i = 0 THEN {} ELSE {i} \cup ScopeChain(scopes[i].parent)

\* C13: a reference to a name resolves (adds no error) exactly when the name is
\* declared in the scope of the reference or in a scope enclosing it; declarations
\* in nested and in sibling scopes do not count.
C13_ScopingIsolation ==
    [][Visiting("IdentifierNode") =>
        LET node == Head(agenda).node
        IN  IF \E i \in ScopeChain(currentScope) : node.name \in DOMAIN scopes[i].symbols
            THEN semErrors' = semErrors
            ELSE semErrors' = Append(semErrors,
                    [message |-> "Semantic Error: Undeclared variable '" \o node.name \o "'.",
                     line |-> node.token.line])
      ]_vars

\* the error a visit of the definition of the named function may record
AlreadyDefined(name) == "Semantic Error: Function '" \o name \o "' already defined."

IsLabelDeclaration(text) ==
    /\ Len(text) >= 3
    /\ CharAt(text, 1) = "L"
    /\ CharAt(text, Len(text)) = ":"
    /\ \A i \in 2..(Len(text) - 1) : CharAt(text, i) \in Digits

\* an unconditional jump
IsJump(text) == StartsWith(text, "goto ")

\* how many times the source uses the keyword
KeywordCount(word) ==
    Cardinality({k \in 1..Len(tokens) :
                    tokens[k].type = "KEYWORD" /\ tokens[k].value = word})

\* the lines of the generated code that satisfy the test
Lines(Test(_)) == {k \in 1..Len(intermediateCode) : Test(intermediateCode[k])}

\* C15: the code generated for a program with a single if statement and no loop holds
\* exactly two label declarations and exactly one unconditional jump; the jump comes
\* after the conditional branch and the instructions of the true branch and is
\* directly followed by the first label declaration; without an else-branch the two
\* label declarations are adjacent.
C15_IfElseShape ==
    (generated /\ KeywordCount("if") = 1 /\ KeywordCount("for") = 0) =>
        /\ Cardinality(Lines(IsLabelDeclaration)) = 2
        /\ Cardinality(Lines(IsJump)) = 1
        /\ Cardinality(Lines(IsBranch)) = 1
        /\ \A j \in Lines(IsJump) :
                /\ \A b \in Lines(IsBranch) : b < j
                /\ \A l \in Lines(IsLabelDeclaration) : j < l
                /\ j + 1 \in Lines(IsLabelDeclaration)
                /\ KeywordCount("else") = 0 => j + 2 \in Lines(IsLabelDeclaration)

\* if (a < b) { return b; } else { b = f(a, b); }: the jump follows the return
C15_Witness ==
    /\ generated
    /\ KeywordCount("if") = 1
    /\ KeywordCount("else") = 1
    /\ \E j \in 2..(Len(intermediateCode) - 1) :
            /\ intermediateCode[j - 1] = "return b"
            /\ intermediateCode[j] = "goto L1"
            /\ intermediateCode[j + 1] = "L0:"
            /\ intermediateCode[Len(intermediateCode)] \in {"return a", "func end f:"}

\* the loop of the claim, as the source corpus spells it
EmptyLoop == "for ( int i = 0 ;\ni < 2 ;\ni = i + 1 ) {\n}"

\* the generated code without the lines that mark the function
FunctionBody ==
    SelectSeq(intermediateCode,
              LAMBDA text : ~(\/ StartsWith(text, "func begin ")
                              \/ StartsWith(text, "func end ")
                              \/ text = "f:"))

\* C16: the code generated for a function whose body is the loop
\* for (int i = 0; i < 2; i = i + 1) { } reads, in this order: the copy i = 0, the
\* start label, the comparison into a temporary, the branch on that temporary being
\* false to the end label, the increment ending in the copy into i, the jump to the
\* start label, the end label.
C16_ForLoopOrder ==
    (generated /\ Contains(code, EmptyLoop) /\ KeywordCount("for") = 1
               /\ KeywordCount("if") = 0) =>
        LET body == FunctionBody
            n == Len(body)
        IN  \E start, end, t, u \in 0..1 :
                /\ start # end
                /\ n >= 7
                /\ body[1] = "i = 0"
                /\ body[2] = "L" \o ToString(start) \o ":"
                /\ body[3] = "t" \o ToString(t) \o " = i < 2"
                /\ IsBranch(body[4])
                /\ Contains(body[4], " t" \o ToString(t))
                /\ Contains(body[4], "L" \o ToString(end))
                /\ \/ n = 7 /\ body[5] = "i = i + 1"
                   \/ /\ n = 8
                      /\ body[5] = "t" \o ToString(u) \o " = i + 1"
                      /\ body[6] = "i = t" \o ToString(u)
                /\ body[n - 1] = "goto L" \o ToString(start)
                /\ body[n] = "L" \o ToString(end) \o ":"

\* C17: the run on the default program of the page ends with both error lists
\* empty and with a scope list that holds, in creation order, the global scope, the
\* scope of square, the scope of main, the scope of main's for-loop header and, with
\* that one as its parent, the block scope of the loop body.
C17_SampleScopes ==
    (input.text = SampleProgram /\ pc = "done") =>
        /\ Len(errors) = 0
        /\ Len(semErrors) = 0
        /\ \E sq, mn, fl, bl \in 2..Len(scopes) :
                /\ sq < mn /\ mn < fl /\ fl < bl
                /\ scopes[globalScope].name = "global"
                /\ scopes[sq].name = "square"
                /\ scopes[mn].name = "main"
                /\ scopes[fl].name = "for-loop"
                /\ scopes[bl].name = "block"
                /\ scopes[bl].parent = fl

\* the names of the functions of the program, in source order
DefinedFunctions == [i \in 1..Len(ast.children) |-> ast.children[i].name.name]

\* the line that opens the code of function name: func begin name: in main.js,
\* name: in tac.js
IsFunctionBegin(text, name) == text \in {"func begin " \o name \o ":", name \o ":"}

IsFunctionEnd(text, name) == text = "func end " \o name \o ":"

\* the lines of the generated code that mark the begin or the end of a function
FunctionMarkers ==
    SelectSeq(intermediateCode,
              LAMBDA text : \E i \in 1..Len(DefinedFunctions) :
                                \/ IsFunctionBegin(text, DefinedFunctions[i])
                                \/ IsFunctionEnd(text, DefinedFunctions[i]))

\* C18: in the generated code every function of the program has one begin marker and
\* one end marker after it, the markers of the functions follow each other in
\* source order without nesting or overlap, the first line is the begin marker of the
\* first function and the last line the end marker of the last one; the code of the
\* default program starts with the begin marker of square, the multiplication into a
\* temporary, the return of the temporary, the end marker of square and the begin
\* marker of main.
C18_FunctionMarkers ==
    generated =>
        /\ Len(FunctionMarkers) = 2 * Len(DefinedFunctions)
        /\ \A i \in 1..Len(DefinedFunctions) :
                /\ IsFunctionBegin(FunctionMarkers[2 * i - 1], DefinedFunctions[i])
                /\ IsFunctionEnd(FunctionMarkers[2 * i], DefinedFunctions[i])
        /\ DefinedFunctions # <<>> =>
                /\ IsFunctionBegin(intermediateCode[1], DefinedFunctions[1])
                /\ IsFunctionEnd(intermediateCode[Len(intermediateCode)],
                                 DefinedFunctions[Len(DefinedFunctions)])
        /\ input.text = SampleProgram =>
                /\ IsFunctionBegin(intermediateCode[1], "square")
                /\ intermediateCode[2] = "t0 = n * n"
                /\ intermediateCode[3] = "return t0"
                /\ IsFunctionEnd(intermediateCode[4], "square")
                /\ IsFunctionBegin(intermediateCode[5], "main")

\* the nodes a node holds, in the order its constructor takes them
Subnodes(node) ==
    CASE node.type = "ProgramNode" -> node.children
      [] node.type = "FunctionDefinitionNode" -> <<node.body>>
      [] node.type = "BlockNode" -> node.statements
      [] node.type = "VariableDeclarationNode" -> <<node.value>>
      [] node.type \in {"AssignmentNode", "BinaryOpNode"} -> <<node.left, node.right>>
      [] node.type = "FunctionCallNode" -> node.args
      [] node.type = "IfStatementNode" -> <<node.condition, node.ifBody, node.elseBody>>
      [] node.type = "ForLoopNode" ->
            <<node.init, node.condition, node.increment, node.body>>
      [] node.type = "ReturnStatementNode" -> <<node.value>>
      [] OTHER -> <<>>

\* the function calls of the tree under node
RECURSIVE CallNodes(_)
CallNodes(node) ==
    (IF node.type = "FunctionCallNode" THEN {node} ELSE {})
        \cup UNION {CallNodes(Subnodes(node)[i]) : i \in 1..Len(Subnodes(node))}

IsParam(text) == StartsWith(text, "param ")

\* the call instruction of a call with n arguments
IsCallOf(text, n) == EndsWith(text, " call " \o ToString(n))

IsCall(text) == \E n \in 0..Len(intermediateCode) : IsCallOf(text, n)

\* the name an instruction assigns to, "" if it assigns to none
ResultOf(text) ==
    LET k == IndexOfString(text, " = ", 1) IN IF k = 0 THEN "" ELSE SubSeq(text, 1, k - 1)

\* a name newTemp makes: t and digits
IsTemporary(name) ==
    /\ Len(name) >= 2
    /\ CharAt(name, 1) = "t"
    /\ \A i \in 2..Len(name) : CharAt(name, i) \in Digits

\* the source names a variable, a parameter or a function as newTemp names
\* temporaries
SourceUsesTemporaryNames ==
    \E k \in 1..Len(tokens) : tokens[k].type = "IDENTIFIER" /\ IsTemporary(tokens[k].value)

\* the source names a function as newLabel names labels, and the generator is the
\* one of tac.js, which writes the code of function L0 under the line L0:
FunctionMarkersLikeLabels ==
    /\ build # "main.js"
    /\ \E k \in 1..Len(tokens) :
            tokens[k].type = "IDENTIFIER" /\ IsLabelDeclaration(tokens[k].value \o ":")

\* the code of printf(); a = f(f(b, 1), f(a + 1, 2));
NestedCallCode ==
    <<"t0 = printf call 0", "param b", "param 1", "t1 = f call 2", "t2 = a + 1",
      "param t2", "param 2", "t3 = f call 2", "param t1", "param t3", "t4 = f call 2",
      "a = t4">>

\* C19: lowering a call with n arguments, from any value of the temporary counter,
\* first produces the code of the arguments, then n param instructions that push the
\* argument values in argument order, then one call instruction that names the
\* function, n and the temporary allocated after the arguments, and returns that
\* temporary; in the generated code every call instruction of count n is directly
\* preceded by a run of exactly n param instructions, every param instruction belongs
\* to such a run, and no earlier instruction assigns the temporary of a call
\* (in a source that does not itself use the names of temporaries).
C19_CallLowering ==
    generated =>
        /\ \A c \in CallNodes(ast) : \A counter \in 0..2 :
                LET g == [NewTACGenerator(build) EXCEPT !.tempCounter = counter]
                    args == tacVisitArgs(g, c.args, 1, <<>>)
                    call == tacVisit(g, c)
                    n == Len(c.args)
                    m == Len(args.g.code)
                IN  /\ Len(call.g.code) = m + n + 1
                    /\ SubSeq(call.g.code, 1, m) = args.g.code
                    /\ \A i \in 1..n : call.g.code[m + i] = "param " \o args.v[i]
                    /\ call.v = "t" \o ToString(args.g.tempCounter)
                    /\ call.g.tempCounter = args.g.tempCounter + 1
                    /\ call.g.code[m + n + 1] =
                            call.v \o " = " \o c.name.name \o " call " \o ToString(n)
        /\ \A k \in 1..Len(intermediateCode) :
                /\ IsParam(intermediateCode[k]) =>
                        /\ k < Len(intermediateCode)
                        /\ IsParam(intermediateCode[k + 1]) \/ IsCall(intermediateCode[k + 1])
                /\ \A n \in 0..Len(intermediateCode) :
                        IsCallOf(intermediateCode[k], n) =>
                            /\ k > n
                            /\ \A j \in (k - n)..(k - 1) : IsParam(intermediateCode[j])
                            /\ k - n > 1 => ~IsParam(intermediateCode[k - n - 1])
                            /\ ~SourceUsesTemporaryNames =>
                                    \A j \in 1..(k - 1) :
                                        ResultOf(intermediateCode[j]) #
                                            ResultOf(intermediateCode[k])
        /\ Contains(code, "printf ( ) ;\na = f ( f ( b , 1 ) , f ( a + 1 , 2 ) ) ;") =>
                \E k \in 0..(Len(intermediateCode) - Len(NestedCallCode)) :
                    SubSeq(intermediateCode, k + 1, k + Len(NestedCallCode)) = NestedCallCode

\* the code of the nested call has been generated: the two pushes of the outer call
\* directly precede it and follow the code of both inner calls
C19_Witness ==
    /\ generated
    /\ \E c \in CallNodes(ast) : \E a \in CallNodes(ast) \ {c} :
            Len(c.args) = 2 /\ c.args[1] = a
    /\ \E k \in 3..Len(intermediateCode) :
            /\ intermediateCode[k - 2] = "param t1"
            /\ intermediateCode[k - 1] = "param t3"
            /\ intermediateCode[k] = "t4 = f call 2"

\* the temporaries the instructions assign, in the order of the instructions
TemporariesAssigned(instructions) ==
    LET assigning == SelectSeq(instructions, LAMBDA text : IsTemporary(ResultOf(text)))
    IN  [i \in 1..Len(assigning) |-> ResultOf(assigning[i])]

\* the labels the instructions declare, in the order of the instructions
LabelsDeclared(instructions) == SelectSeq(instructions, IsLabelDeclaration)

\* the run that left g started both counters at 0 and only advanced them: the
\* temporaries assigned are t0, t1, ... in this order up to the counter, the labels
\* declared are L0, L1, ... up to the counter, each declared once
CountedFromZero(g) ==
    /\ TemporariesAssigned(g.code) = [i \in 1..g.tempCounter |-> "t" \o ToString(i - 1)]
    /\ Len(LabelsDeclared(g.code)) = g.labelCounter
    /\ {LabelsDeclared(g.code)[i] : i \in 1..g.labelCounter} =
            {"L" \o ToString(i - 1) \o ":" : i \in 1..g.labelCounter}

\* C20: a second call of generate on the same generator with the same tree returns
\* the instructions the first call returned and leaves the two counters where the
\* first call left them, and both runs count from zero: the first temporary is t0,
\* the first label L0, and the numbers only grow (read off the code of a source
\* that does not itself use the names of temporaries, nor those of labels for
\* functions that tac.js lowers).
C20_GenerateResets ==
    [][pc' = "regenerated" =>
            /\ intermediateCode = generator.code
            /\ intermediateCode' = intermediateCode
            /\ generator'.tempCounter = generator.tempCounter
            /\ generator'.labelCounter = generator.labelCounter
            /\ (~SourceUsesTemporaryNames /\ ~FunctionMarkersLikeLabels) =>
                    CountedFromZero(generator) /\ CountedFromZero(generator')]_vars

\* generate has run a second time on a program that needs temporaries and labels
C20_Witness ==
    /\ pc = "regenerated"
    /\ generator.tempCounter >= 2
    /\ generator.labelCounter >= 2
    /\ \E i, j \in 1..Len(intermediateCode) :
            /\ ResultOf(intermediateCode[i]) = "t0"
            /\ intermediateCode[j] = "L0:"

\* every node of the tree under node
RECURSIVE Subtrees(_)
Subtrees(node) ==
    {node} \cup UNION {Subtrees(Subnodes(node)[i]) : i \in 1..Len(Subnodes(node))}

\* how tightly a binary operator binds: 1 for ||, up to 5 for * and /
Binding(op) ==
    CASE op = "||" -> 1
      [] op = "&&" -> 2
      [] op \in {"<", ">", "==", "!=", "<=", ">="} -> 3
      [] op \in {"+", "-"} -> 4
      [] op \in {"*", "/"} -> 5

\* the source has a parenthesized expression: a ( that opens neither a parameter
\* list, nor an argument list, nor the header of an if or a for
Parenthesized ==
    \E k \in 1..Len(tokens) :
        /\ tokens[k].value = "("
        /\ k = 1 \/ ~(\/ tokens[k - 1].type = "IDENTIFIER"
                      \/ tokens[k - 1].value \in {"if", "for", "printf"})

\* the operands and operators of an expression tree, read from left to right
RECURSIVE Infix(_)
Infix(node) ==
    CASE node.type = "BinaryOpNode" -> Infix(node.left) \o <<node.op>> \o Infix(node.right)
      [] node.type = "IdentifierNode" -> <<node.name>>
      [] node.type \in {"NumberNode", "StringLiteralNode"} -> <<node.value>>
      [] OTHER -> <<>>

\* the expression the only statement of the only function returns
Returned == ast.children[1].body.statements[1].value

\* the shapes of expressions: a name, and l o r
Leaf(name) == [name |-> name]

Binary(l, o, r) == [left |-> l, op |-> o, right |-> r]

\* the expression has the shape
RECURSIVE SameShape(_, _)
SameShape(node, shape) ==
    IF DOMAIN shape = {"name"}
    THEN node.type = "IdentifierNode" /\ node.name = shape.name
    ELSE /\ node.type = "BinaryOpNode"
         /\ node.op = shape.op
         /\ SameShape(node.left, shape.left)
         /\ SameShape(node.right, shape.right)

\* C21: in the tree of a source without parenthesized expressions the left operand
\* of a binary operation never binds less tightly than the operation and the right
\* operand binds more tightly (|| < && < comparison < additive < multiplicative <
\* primary, every level folding to the left); the tree of a returned chain of
\* operations reads, from left to right, as the source does; a + b * a is
\* +(a, *(b, a)), a - b - a is -(-(a, b), a) and a < b == a is ==(<(a, b), a).
C21_Precedence ==
    (ast # NULL /\ errors = <<>>) =>
        /\ ~Parenthesized =>
                \A n \in Subtrees(ast) :
                    n.type = "BinaryOpNode" =>
                        /\ n.left.type = "BinaryOpNode" =>
                                Binding(n.left.op) >= Binding(n.op)
                        /\ n.right.type = "BinaryOpNode" =>
                                Binding(n.right.op) > Binding(n.op)
        /\ input \in ExpressionPrograms =>
                /\ Len(ast.children) = 1
                /\ Infix(Returned) = [i \in 1..(Len(tokens) - 13) |-> tokens[i + 11].value]
        /\ Contains(code, "return a + b * a ;") =>
                SameShape(Returned, Binary(Leaf("a"), "+", Binary(Leaf("b"), "*", Leaf("a"))))
        /\ Contains(code, "return a - b - a ;") =>
                SameShape(Returned, Binary(Binary(Leaf("a"), "-", Leaf("b")), "-", Leaf("a")))
        /\ Contains(code, "return a < b == a ;") =>
                SameShape(Returned, Binary(Binary(Leaf("a"), "<", Leaf("b")), "==", Leaf("a")))

\* a || b && a * b has been parsed: the tree is ||(a, &&(b, *(a, b)))
C21_Witness ==
    /\ ast # NULL
    /\ errors = <<>>
    /\ Contains(code, "return a || b && a * b ;")
    /\ SameShape(Returned, Binary(Leaf("a"), "||", Binary(Leaf("b"), "&&", Binary(Leaf("a"), "*", Leaf("b")))))

\* the kinds of the symbols stored in the scopes
SymbolKinds ==
    UNION {{scopes[i].symbols[name].type : name \in DOMAIN scopes[i].symbols} :
                i \in 1..Len(scopes)}

\* C22: every symbol stored in a scope has kind variable or function, the
\* parameters of a function, which are stored in the scope of the function, included.
C22_SymbolKinds == SymbolKinds \subseteq {"variable", "function"}

\* C23: in the token sequence no token lies before its predecessor: its line is
\* not smaller, and on the same line its column is greater.  An iteration that skips
\* whitespace with k > 0 line breaks puts its token k lines further down, at the
\* column that is one more than the number of whitespace characters after the last
\* line break; without a line break the token stays on the line, the whitespace
\* added to the column.  The first token of a text without leading whitespace is
\* at line 1, column 1.
C23_PositionsMonotone ==
    [][/\ \A i \in 1..(Len(tokens') - 1) :
            /\ tokens'[i].line <= tokens'[i + 1].line
            /\ tokens'[i].line = tokens'[i + 1].line => tokens'[i].col < tokens'[i + 1].col
       /\ (pc = "lex" /\ Len(tokens') = Len(tokens) + 1) =>
            LET w == Len(remainingCode) - Len(SkipWhitespace(remainingCode))
                ws == SubSeq(remainingCode, 1, w)
                k == CountChar(ws, "\n", 1)
                token == tokens'[Len(tokens')]
            IN  /\ token.line = line + k
                /\ token.col = IF k > 0 THEN 1 + (w - LastIndexOf(ws, "\n", w))
                               ELSE col + w
                /\ line' = token.line
                /\ col' = token.col + Len(token.value)
                /\ (tokens = <<>> /\ w = 0) => (token.line = 1 /\ token.col = 1)
      ]_vars

\* two tokens with a line break and a blank between them: the second is at line 2,
\* column 2
C23_Witness ==
    /\ pc = "lexed"
    /\ Len(tokens) = 2
    /\ tokens[1].line = 1
    /\ tokens[2].line = 2
    /\ tokens[2].col = 2

\* C24: a function whose body is an ordinary statement of a control keyword of the
\* vocabulary (if with else, for, return, while) parses without syntax errors.
C24_ControlKeywordsParse ==
    (pc = "parsed" /\ input \in ControlPrograms) => Len(errors) = 0

\* the token after the current one is the given text
LooksAhead(text) == pos + 2 <= Len(tokens) /\ tokens[pos + 2].value = text

\* C25: the cursor of the parser stays within 0..tokens.length and no step of the
\* parser moves it back.  A step of parseStatement that finds an identifier followed
\* by ( or by = hands over to parseFunctionCallStatement or to parseAssignment
\* with the cursor where it was, and so does the step of parsePrimary that finds
\* an identifier followed by ( and hands over to parseFunctionCallExpression.
C25_CursorNeverBacktracks ==
    [][/\ 0 <= pos'
       /\ pos' <= Len(tokens')
       /\ pos <= pos'
       /\ (Running({"parseStatement"}) /\ currentType(ParserObject) = "IDENTIFIER") =>
            /\ LooksAhead("(") =>
                    pos' = pos /\ stack'[Len(stack')].fn = "parseFunctionCallStatement"
            /\ LooksAhead("=") =>
                    pos' = pos /\ stack'[Len(stack')].fn = "parseAssignment"
       /\ (Running({"parsePrimary"}) /\ Top.pc = "start"
                /\ currentType(ParserObject) = "IDENTIFIER" /\ LooksAhead("(")) =>
            pos' = pos /\ stack'[Len(stack')].fn = "parseFunctionCallExpression"
      ]_vars

\* the parse has ended with the cursor at the end of the tokens, after an error
\* reported at the end of the tokens and after both look-aheads were taken
C25_Witness ==
    /\ pc = "parsed"
    /\ pos = Len(tokens)
    /\ \E e \in 1..Len(errors) : EndsWith(errors[e].message, "at EOF")
    /\ \E n \in Subtrees(ast) : n.type = "AssignmentNode"
    /\ CallNodes(ast) # {}

\* the calls of exitScope the walk still has to make
PendingExits == Cardinality({i \in 1..Len(agenda) : agenda[i].k = "exitScope"})

\* C26: while analyze runs the current scope is one of the scopes of the list; a
\* step never removes or renames a scope of the list nor changes its parent; a visit
\* adds at most one scope, whose parent is the scope that was current and which
\* becomes the current one, with one more exitScope to come; exitScope makes the
\* parent of the current scope current, which is the scope that was current before
\* the matching enterScope, since the scopes from the current one up to the global
\* one are as many as the exitScope calls to come; when the walk is over the current
\* scope is the global scope.
C26_ScopesBalanced ==
    [][pc = "analyze" =>
        /\ currentScope \in 1..Len(scopes)
        /\ currentScope' \in 1..Len(scopes')
        /\ Cardinality(ScopeChain(currentScope)) = PendingExits + 1
        /\ Len(scopes') \in {Len(scopes), Len(scopes) + 1}
        /\ \A i \in 1..Len(scopes) :
                scopes'[i].name = scopes[i].name /\ scopes'[i].parent = scopes[i].parent
        /\ Len(scopes') = Len(scopes) + 1 =>
                /\ scopes'[Len(scopes')].parent = currentScope
                /\ currentScope' = Len(scopes')
                /\ PendingExits' = PendingExits + 1
        /\ (agenda # <<>> /\ Head(agenda).k = "exitScope") =>
                /\ scopes' = scopes
                /\ currentScope' = scopes[currentScope].parent
                /\ PendingExits' = PendingExits - 1
        /\ Len(scopes') = Len(scopes) =>
                currentScope' \in {currentScope, scopes[currentScope].parent}
        /\ agenda = <<>> => currentScope = globalScope
      ]_vars

\* the walk is over after scopes nested three deep were entered and left
C26_Witness ==
    /\ pc = "analyze"
    /\ agenda = <<>>
    /\ currentScope = globalScope
    /\ \E i \in 1..Len(scopes) : Cardinality(ScopeChain(i)) >= 4

\* the words of an instruction, which blanks separate
RECURSIVE Words(_)
Words(text) ==
    LET blank == IndexOf(text, " ", 1)
    IN  IF text = "" THEN {}
        ELSE IF blank = 0 THEN {text}
        ELSE {SubSeq(text, 1, blank - 1)} \cup Words(Substring(text, blank))

\* the names an instruction reads: the words after its = if it assigns, else its words
OperandsOf(text) ==
    LET k == IndexOfString(text, " = ", 1)
    IN  IF k = 0 THEN Words(text) ELSE Words(Substring(text, k + 2))

\* the instructions that assign to the name
Definitions(name) ==
    {j \in 1..Len(intermediateCode) : ResultOf(intermediateCode[j]) = name}

\* C27: in the generated code every temporary tN is assigned by exactly one
\* instruction, and that instruction comes before every instruction that reads tN.
C27_SingleAssignment ==
    generated =>
        \A k \in 1..Len(intermediateCode) :
            /\ IsTemporary(ResultOf(intermediateCode[k])) =>
                    Definitions(ResultOf(intermediateCode[k])) = {k}
            /\ \A name \in OperandsOf(intermediateCode[k]) :
                    IsTemporary(name) =>
                        \E j \in 1..(k - 1) : Definitions(name) = {j}

\* the label an unconditional jump names
JumpTarget(text) == Substring(text, Len("goto "))

VisitedFunctions ==
    LET waiting == Cardinality({k \in 1..Len(agenda) :
                        /\ agenda[k].k = "visit"
                        /\ agenda[k].node.type = "FunctionDefinitionNode"})
    IN  {DefinedFunctions[i] : i \in 1..(Len(ast.children) - waiting)}

NotDefined(name) == "Semantic Error: Function '" \o name \o "' not defined."

\* C29: the visit of a call to a function of the program records "Function '<name>'
\* not defined." when the definition of that function comes later in the source than
\* the function the call is in, and records nothing when the call is in the body of
\* that function itself or of a function defined after it.
C29_SourceOrderResolution ==
    [][(Visiting("FunctionCallNode")
            /\ \E i \in 1..Len(ast.children) :
                    DefinedFunctions[i] = Head(agenda).node.name.name) =>
        LET name == Head(agenda).node.name
        IN  IF name.name \in VisitedFunctions
            THEN semErrors' = semErrors
            ELSE semErrors' = Append(semErrors, [message |-> NotDefined(name.name),
                                                 line |-> name.token.line])
      ]_vars

\* two tokens side by side on a line, both the one-character operator op
TwoOperators(k, op) ==
    /\ k + 1 <= Len(tokens)
    /\ \A j \in {k, k + 1} : tokens[j].type = "OPERATOR" /\ tokens[j].value = op
    /\ tokens[k + 1].line = tokens[k].line
    /\ tokens[k + 1].col = tokens[k].col + 1

====
